---------------------------- MODULE Spec2Model ----------------------------
(***************************************************************************)
(* Model of the OTIK archiver: canonical Huffman codec (Huffman.py),       *)
(* systematic Hamming codec with a global parity bit (Hamming.py), the     *)
(* bit/byte utilities (utils.py), the archive format (Archive_Formats.py), *)
(* the archive writer and reader (Archiver.py) and the encode/decode       *)
(* pipeline (main.py).                                                     *)
(*                                                                         *)
(* Bytes are naturals 0..255, byte strings and bit lists are sequences.    *)
(* A Python dict whose iteration order the code depends on is a sequence   *)
(* of entries in insertion order; a dict that is only looked up is a       *)
(* function on its key set.                                                *)
(***************************************************************************)
EXTENDS Integers, Sequences, FiniteSets, TLC

\* ------------------------------------------------------------------------
\* Bounds of the model
\* ------------------------------------------------------------------------

\* number of distinct byte values the inputs are drawn from
NumSyms == 4

\* longest input byte string given to the Huffman codec
MaxLen == 5

\* the byte values of the inputs: 'A', 'B', 'C', ...
ByteVals == 65..(64 + NumSyms)

\* all byte strings over vals of length 0..n
ByteStrings(vals, n) == UNION {[1..m -> vals] : m \in 0..n}

\* ------------------------------------------------------------------------
\* Generic helpers
\* ------------------------------------------------------------------------

RECURSIVE Pow2(_)
Pow2(e) == IF e = 0 THEN 1 ELSE 2 * Pow2(e - 1)

\* value >> shift & 1
BitAt(value, shift) == (value \div Pow2(shift)) % 2

Max(S) == CHOOSE x \in S : \A y \in S : x >= y

\* data[:n] of Python for n >= 0
Take(s, n) == SubSeq(s, 1, IF n < Len(s) THEN n ELSE Len(s))

\* Body of a value: names a value of the code (a local variable) that the
\* statements after it read several times
With(value, Body(_)) == Body(value)

\* ------------------------------------------------------------------------
\* utils.py
\* ------------------------------------------------------------------------

\* (mutant of byte_to_bits: the least significant bit comes first)
byte_to_bits_lsb_first(byte, length) == [j \in 1..length |-> BitAt(byte, j - 1)]

\* byte_to_bits appends `length` bits of `byte`, most significant first;
\* this is the appended part
byte_to_bits(byte, length) == [j \in 1..length |-> BitAt(byte, length - j)]

\* bits_to_bytes: (len+7)//8 bytes, bit i goes to byte i//8 at bit 7 - i%8
RECURSIVE ByteOfBits(_, _, _)
ByteOfBits(bits, byte_id, j) ==
    IF j > 7 THEN 0
    ELSE LET i == 8 * byte_id + j
             bit == IF i < Len(bits) THEN bits[i + 1] ELSE 0
         IN bit * Pow2(7 - j) + ByteOfBits(bits, byte_id, j + 1)

bits_to_bytes(bits) ==
    [b \in 1..((Len(bits) + 7) \div 8) |-> ByteOfBits(bits, b - 1, 0)]

\* bytes_to_bits: byte_to_bits(bits, byte, 8) for every byte in order
RECURSIVE bytes_to_bits(_)
bytes_to_bits(b) ==
    IF b = << >> THEN << >>
    ELSE byte_to_bits(Head(b), 8) \o bytes_to_bits(Tail(b))

\* lengths_to_bytes: 256 bytes, index = symbol, value = length & 0xFF
lengths_to_bytes(lengths) ==
    [i \in 1..256 |-> IF (i - 1) \in DOMAIN lengths
                      THEN lengths[i - 1] % 256 ELSE 0]

\* lengths_from_bytes: {symbol: length} for the non-zero bytes of data[:256]
lengths_from_bytes(data) ==
    LET n == IF Len(data) < 256 THEN Len(data) ELSE 256
        present == {s \in 0..(n - 1) : data[s + 1] # 0}
    IN [s \in present |-> data[s + 1]]

\* ------------------------------------------------------------------------
\* Huffman.py
\* ------------------------------------------------------------------------

\* Huffman.__init__: three empty dicts.  freqs is a sequence of
\* [sym, w] in insertion order, lengths a function symbol -> length,
\* canonical_codes a sequence of [sym, code, len] in insertion order.
Huffman_init == [freqs |-> << >>, lengths |-> << >>, canonical_codes |-> << >>]

\* collections.Counter(data): counts in order of first occurrence
RECURSIVE Counter(_)
Counter(data) ==
    IF data = << >> THEN << >>
    ELSE LET front == Counter(SubSeq(data, 1, Len(data) - 1))
             b == data[Len(data)]
             at == {i \in 1..Len(front) : front[i].sym = b}
         IN IF at = {} THEN Append(front, [sym |-> b, w |-> 1])
            ELSE [front EXCEPT ![CHOOSE i \in at : TRUE].w = @ + 1]

\* (mutant of HeapMinIndex: the heap gives its greatest element)
HeapMaxIndex(heap) ==
    CHOOSE i \in 1..Len(heap) : \A j \in 1..Len(heap) :
        \/ heap[i].w > heap[j].w
        \/ heap[i].w = heap[j].w /\ heap[i].id >= heap[j].id

\* heappop on tuples (weight, uniq_id, node): the least by (weight, uniq_id)
HeapMinIndex(heap) ==
    CHOOSE i \in 1..Len(heap) : \A j \in 1..Len(heap) :
        \/ heap[i].w < heap[j].w
        \/ heap[i].w = heap[j].w /\ heap[i].id <= heap[j].id

HeapRemove(heap, i) == SubSeq(heap, 1, i - 1) \o SubSeq(heap, i + 1, Len(heap))

\* the (n1, n2) node: a subtree is kept as the depth of each of its leaves,
\* which is what dfs(root, 0) computes
JoinNodes(n1, n2) ==
    [s \in (DOMAIN n1) \cup (DOMAIN n2) |->
        IF s \in DOMAIN n1 THEN n1[s] + 1 ELSE n2[s] + 1]

\* while len(heap) > 1: pop two, push (w1 + w2, uniq_id, (n1, n2))
RECURSIVE BuildTree(_, _)
BuildTree(heap, uniq_id) ==
    IF Len(heap) <= 1 THEN heap[1].node
    ELSE LET i1 == HeapMinIndex(heap)
             e1 == heap[i1]
             h1 == HeapRemove(heap, i1)
             i2 == HeapMinIndex(h1)
             e2 == h1[i2]
             h2 == HeapRemove(h1, i2)
         IN BuildTree(Append(h2, [w |-> e1.w + e2.w, id |-> uniq_id,
                                  node |-> JoinNodes(e1.node, e2.node)]),
                      uniq_id + 1)

\* Huffman._build_huffman_lengths: the instance after the call
build_huffman_lengths(self) ==
    IF self.freqs = << >> THEN self
    ELSE IF Len(self.freqs) = 1
    THEN \* freqs.popitem(); the returned {sym: 1} is dropped by pack
         [self EXCEPT !.freqs = << >>]
    ELSE LET heap == [i \in 1..Len(self.freqs) |->
                        [w |-> self.freqs[i].w, id |-> i - 1,
                         node |-> [s \in {self.freqs[i].sym} |-> 0]]]
             root == BuildTree(heap, Len(self.freqs))
         IN [self EXCEPT !.lengths =
                [s \in (DOMAIN self.lengths) \cup (DOMAIN root) |->
                    IF s \in DOMAIN root THEN root[s] ELSE self.lengths[s]]]

\* (mutant of LayerStart: the shift "<< 1" is lost)
RECURSIVE LayerStartNoShift(_, _)
LayerStartNoShift(chars_on_layers, layer) ==
    IF layer = 0 THEN 0
    ELSE LayerStartNoShift(chars_on_layers, layer - 1) + chars_on_layers[layer - 1]

\* first code of every layer: code = (code + chars_on_layers[layer-1]) << 1
RECURSIVE LayerStart(_, _)
LayerStart(chars_on_layers, layer) ==
    IF layer = 0 THEN 0
    ELSE (LayerStart(chars_on_layers, layer - 1) + chars_on_layers[layer - 1]) * 2

\* self.canonical_codes[sym] = (code, l): in place for a known key,
\* appended for a new one
DictSet(codes, entry) ==
    LET at == {i \in 1..Len(codes) : codes[i].sym = entry.sym}
    IN IF at = {} THEN Append(codes, entry)
       ELSE [codes EXCEPT ![CHOOSE i \in at : TRUE] = entry]

\* the pairs (l, sym) with l > 0 sorted by (l, sym)
RECURSIVE SortedPairs(_)
SortedPairs(pairs) ==
    IF pairs = {} THEN << >>
    ELSE LET p == CHOOSE x \in pairs : \A y \in pairs :
                     x[1] < y[1] \/ (x[1] = y[1] /\ x[2] <= y[2])
         IN <<p>> \o SortedPairs(pairs \ {p})

RECURSIVE AssignCodes(_, _, _)
AssignCodes(codes, pairs, next_code) ==
    IF pairs = << >> THEN codes
    ELSE LET l == pairs[1][1]
             sym == pairs[1][2]
         IN AssignCodes(DictSet(codes, [sym |-> sym, code |-> next_code[l], len |-> l]),
                        Tail(pairs),
                        [next_code EXCEPT ![l] = @ + 1])

\* Huffman._canonical_codes_from_lengths: the new canonical_codes
canonical_codes_from_lengths(self) ==
    LET pairs == {<<self.lengths[s], s>> : s \in {t \in DOMAIN self.lengths : self.lengths[t] > 0}}
    IN IF pairs = {} THEN self
       ELSE LET sorted == SortedPairs(pairs)
                maxbits == sorted[Len(sorted)][1]
                chars_on_layers == [l \in 0..maxbits |-> Cardinality({p \in pairs : p[1] = l})]
                all_codes_on_layers == [l \in 1..maxbits |-> LayerStart(chars_on_layers, l)]
            IN [self EXCEPT !.canonical_codes =
                    AssignCodes(self.canonical_codes, sorted, all_codes_on_layers)]

\* b in self.canonical_codes
HasCode(codes, b) == \E i \in 1..Len(codes) : codes[i].sym = b

\* self.canonical_codes[b]
CodeOf(codes, b) == codes[CHOOSE i \in 1..Len(codes) : codes[i].sym = b]

RECURSIVE EncodeBits(_, _)
EncodeBits(codes, data) ==
    IF data = << >> THEN << >>
    ELSE LET c == CodeOf(codes, Head(data))
         IN byte_to_bits(c.code, c.len) \o EncodeBits(codes, Tail(data))

\* Huffman._encode_bytes: (out, padding), or the KeyError of
\* self.canonical_codes[b]
encode_bytes(self, data) ==
    IF \E i \in 1..Len(data) : ~HasCode(self.canonical_codes, data[i])
    THEN [err |-> "KeyError"]
    ELSE LET bitbuf == EncodeBits(self.canonical_codes, data)
         IN [err |-> "", out |-> bits_to_bytes(bitbuf),
             padding |-> 8 - (Len(bitbuf) % 8)]

\* Huffman.pack: the instance after the call and what the call returns
Huffman_pack(self, data) ==
    LET s1 == [self EXCEPT !.freqs = Counter(data)]
        s2 == build_huffman_lengths(s1)
        s3 == canonical_codes_from_lengths(s2)
        enc == encode_bytes(s3, data)
    IN [self |-> s3,
        ret |-> IF enc.err # "" THEN [err |-> enc.err]
                ELSE [err |-> "", packed |-> enc.out,
                      lengths_codes |-> lengths_to_bytes(s3.lengths),
                      padding |-> enc.padding]]

\* table[code_length][code] = sym; a later entry of the dict overwrites
\* an earlier one with the same (code, length)
DecodeLookup(codes, cur_len, cur) ==
    LET at == {i \in 1..Len(codes) : codes[i].len = cur_len /\ codes[i].code = cur}
    IN IF at = {} THEN -1 ELSE codes[Max(at)].sym

\* Huffman._decode_bits_with_table from bit number i (1-based) on
RECURSIVE DecodeFrom(_, _, _, _, _, _)
DecodeFrom(codes, encoded_bits, total_bits, i, cur, cur_len) ==
    IF i > Len(encoded_bits) \/ i > total_bits THEN << >>
    ELSE LET c == 2 * cur + encoded_bits[i]
             l == cur_len + 1
             sym == DecodeLookup(codes, l, c)
         IN IF sym # -1
            THEN <<sym>> \o DecodeFrom(codes, encoded_bits, total_bits, i + 1, 0, 0)
            ELSE DecodeFrom(codes, encoded_bits, total_bits, i + 1, c, l)

decode_bits_with_table(encoded_bits, codes, total_bits) ==
    DecodeFrom(codes, encoded_bits, total_bits, 1, 0, 0)

\* Huffman.unpack: the instance after the call and the decoded bytes
Huffman_unpack(self, data_bytes, lengths_codes, padding) ==
    LET s1 == [self EXCEPT !.lengths = lengths_from_bytes(lengths_codes)]
        s2 == canonical_codes_from_lengths(s1)
        encoded_bits == bytes_to_bits(data_bytes)
        total_bits == Len(encoded_bits) - padding
    IN [self |-> s2,
        ret |-> decode_bits_with_table(encoded_bits, s2.canonical_codes, total_bits)]

\* ------------------------------------------------------------------------
\* Hamming.py
\* ------------------------------------------------------------------------

\* s ^= a & b over i in 1..m: the parity of the number of i with a[i] = b[i] = 1
RECURSIVE XorAnd(_, _, _)
XorAnd(a, b, m) ==
    IF m = 0 THEN 0 ELSE (XorAnd(a, b, m - 1) + a[m] * b[m]) % 2

\* sum(bits)
RECURSIVE Sum(_)
Sum(bits) == IF bits = << >> THEN 0 ELSE Head(bits) + Sum(Tail(bits))

\* Hamming._build_parity_matrix: r rows [ P^T | I_r | 1 ] of n entries
build_parity_matrix(r, k) ==
    [parity_row \in 1..r |->
        [pos \in 1..k |-> BitAt(pos, parity_row - 1)]
        \o [i \in 1..r |-> IF i = parity_row THEN 1 ELSE 0]
        \o <<1>>]

\* Hamming.__init__ for r >= 2 (r < 2 raises ValueError)
Hamming_init(r) ==
    LET n == Pow2(r)
        k == n - r - 1
    IN [r |-> r, n |-> n, k |-> k, H |-> build_parity_matrix(r, k)]

\* Hamming._calc_parity_bits: (parity_bits, global_parity);
\* (sum(d) ^ sum(p)) & 1 is the parity of sum(d) + sum(p)
calc_parity_bits(self, data_bits) ==
    LET parity_bits == [j \in 1..self.r |-> XorAnd(data_bits, self.H[j], self.k)]
    IN [parity_bits |-> parity_bits,
        global_parity |-> (Sum(data_bits) + Sum(parity_bits)) % 2]

\* Hamming._encode_block for len(data_bits) = k
encode_block(self, data_bits) ==
    LET p == calc_parity_bits(self, data_bits)
    IN data_bits \o p.parity_bits \o <<p.global_parity>>

\* syndrome_val |= (b << i)
RECURSIVE SyndromeVal(_, _)
SyndromeVal(syndrome, m) ==
    IF m = 0 THEN 0 ELSE SyndromeVal(syndrome, m - 1) + syndrome[m] * Pow2(m - 1)

\* Hamming._check_errors_block: (syndrome, syndrome_val, double_error)
check_errors_block(self, encoded_bits) ==
    LET syndrome == [j \in 1..self.r |-> XorAnd(encoded_bits, self.H[j], self.n)]
        g_recv == encoded_bits[Len(encoded_bits)]
        global_parity_calc == Sum(SubSeq(encoded_bits, 1, Len(encoded_bits) - 1)) % 2
    IN [syndrome |-> syndrome,
        syndrome_val |-> SyndromeVal(syndrome, self.r),
        double_error |-> (global_parity_calc # g_recv)]

\* (mutant of handler_decoded_errors: the single-error range is 1..n, the
\* columns of H, instead of 1..k)
HandlerRangeN(self, encoded_bits, double_error, syndrome_val) ==
    LET data == SubSeq(encoded_bits, 1, self.k)
    IN IF syndrome_val = 0 /\ ~double_error
       THEN [data |-> data, corrected |-> FALSE, pos |-> -1, uncorrectable |-> FALSE]
       ELSE IF syndrome_val # 0 /\ double_error
       THEN [data |-> data, corrected |-> FALSE, pos |-> -1, uncorrectable |-> TRUE]
       ELSE IF ~(1 <= syndrome_val /\ syndrome_val <= self.n)
       THEN [data |-> data, corrected |-> FALSE, pos |-> -1, uncorrectable |-> TRUE]
       ELSE [data |-> SubSeq([encoded_bits EXCEPT ![syndrome_val] = 1 - @], 1, self.k),
             corrected |-> TRUE, pos |-> syndrome_val, uncorrectable |-> FALSE]

\* Hamming._handler_decoded_errors: (data, corrected, pos, uncorrectable)
handler_decoded_errors(self, encoded_bits, double_error, syndrome_val) ==
    LET data == SubSeq(encoded_bits, 1, self.k)
    IN IF syndrome_val = 0 /\ ~double_error
       THEN [data |-> data, corrected |-> FALSE, pos |-> -1, uncorrectable |-> FALSE]
       ELSE IF syndrome_val # 0 /\ double_error
       THEN [data |-> data, corrected |-> FALSE, pos |-> -1, uncorrectable |-> TRUE]
       ELSE IF ~(1 <= syndrome_val /\ syndrome_val <= self.k)
       THEN [data |-> data, corrected |-> FALSE, pos |-> -1, uncorrectable |-> TRUE]
       ELSE [data |-> [data EXCEPT ![syndrome_val] = 1 - @],
             corrected |-> TRUE, pos |-> syndrome_val, uncorrectable |-> FALSE]

\* Hamming._decode_block for len(encoded_bits) = n
decode_block(self, encoded_bits) ==
    LET c == check_errors_block(self, encoded_bits)
    IN handler_decoded_errors(self, encoded_bits, c.double_error, c.syndrome_val)

\* for i in range(0, len(bits), k): encoded_blocks += _encode_block(bits[i:i+k])
RECURSIVE EncodeBlocks(_, _)
EncodeBlocks(self, bits) ==
    IF bits = << >> THEN << >>
    ELSE encode_block(self, SubSeq(bits, 1, self.k))
         \o EncodeBlocks(self, SubSeq(bits, self.k + 1, Len(bits)))

\* Hamming.pack: (encoded_data, padding)
Hamming_pack(self, data) ==
    LET bits == bytes_to_bits(data)
        padding == (self.k - (Len(bits) % self.k)) % self.k
        padded == bits \o [i \in 1..padding |-> 0]
    IN [encoded_data |-> bits_to_bytes(EncodeBlocks(self, padded)),
        padding |-> padding]

\* the loop of Hamming.unpack over the n-bit blocks; a shorter last block
\* ends it
RECURSIVE DecodeBlocks(_, _)
DecodeBlocks(self, bits) ==
    IF Len(bits) < self.n
    THEN [decoded_bits |-> << >>, corrected |-> 0, uncorrectable |-> 0]
    ELSE LET d == decode_block(self, SubSeq(bits, 1, self.n))
             rest == DecodeBlocks(self, SubSeq(bits, self.n + 1, Len(bits)))
         IN [decoded_bits |-> d.data \o rest.decoded_bits,
             corrected |-> (IF d.corrected THEN 1 ELSE 0) + rest.corrected,
             uncorrectable |-> (IF d.uncorrectable THEN 1 ELSE 0) + rest.uncorrectable]

\* decoded_bits[:-padding] for padding > 0
DropLast(bits, padding) ==
    SubSeq(bits, 1, IF Len(bits) > padding THEN Len(bits) - padding ELSE 0)

\* (mutant of Hamming_unpack: the padding bits are not trimmed)
Hamming_unpack_no_trim(self, data, padding) ==
    LET d == DecodeBlocks(self, bytes_to_bits(data))
    IN [decoded_data |-> bits_to_bytes(d.decoded_bits),
        corrected |-> d.corrected,
        uncorrectable |-> d.uncorrectable]

\* Hamming.unpack: (decoded_data, corrected, uncorrectable)
Hamming_unpack(self, data, padding) ==
    LET d == DecodeBlocks(self, bytes_to_bits(data))
        decoded_bits == IF padding # 0 THEN DropLast(d.decoded_bits, padding)
                        ELSE d.decoded_bits
    IN [decoded_data |-> bits_to_bytes(decoded_bits),
        corrected |-> d.corrected,
        uncorrectable |-> d.uncorrectable]

\* ------------------------------------------------------------------------
\* Integers of the archive format, zlib.crc32
\* ------------------------------------------------------------------------

\* A Python int of the archive format (sizes, offsets, counts, checksums:
\* values up to 2^64) is held as its eight base-256 digits, least
\* significant first, so that 32-bit and 64-bit fields keep every bit.
RECURSIVE Digits(_, _)
Digits(v, w) == IF w = 0 THEN << >> ELSE <<v % 256>> \o Digits(v \div 256, w - 1)

Num(v) == Digits(v, 8)

\* the value of an int known to be below 2^24
Small(x) == x[1] + 256 * x[2] + 65536 * x[3]

\* a < b
Less(a, b) ==
    \E i \in 1..8 : a[i] < b[i] /\ \A j \in (i + 1)..8 : a[j] = b[j]

\* a + b (the sums of the format stay below 2^64)
RECURSIVE AddFrom(_, _, _, _)
AddFrom(a, b, i, carry) ==
    IF i > 8 THEN << >>
    ELSE <<(a[i] + b[i] + carry) % 256>>
         \o AddFrom(a, b, i + 1, (a[i] + b[i] + carry) \div 256)

Add(a, b) == AddFrom(a, b, 1, 0)

\* a * k for a machine-sized k
RECURSIVE MulFrom(_, _, _, _)
MulFrom(a, k, i, carry) ==
    IF i > 8 THEN << >>
    ELSE <<(a[i] * k + carry) % 256>>
         \o MulFrom(a, k, i + 1, (a[i] * k + carry) \div 256)

Mul(a, k) == MulFrom(a, k, 1, 0)

Zeros(n) == [i \in 1..n |-> 0]

RECURSIVE XorBits(_, _, _)
XorBits(a, b, n) ==
    IF n = 0 THEN 0
    ELSE ((a + b) % 2) + 2 * XorBits(a \div 2, b \div 2, n - 1)

\* a ^ b on bytes, tabulated: Xor8[a + 1][b + 1]
Xor8 ==
    [a \in 1..256 |-> [b \in 1..256 |-> XorBits(a - 1, b - 1, 8)] \o << >>] \o << >>

\* a ^ b on 32-bit values given as four digits
Xor32(a, b) ==
    <<Xor8[a[1] + 1][b[1] + 1], Xor8[a[2] + 1][b[2] + 1],
      Xor8[a[3] + 1][b[3] + 1], Xor8[a[4] + 1][b[4] + 1]>>

\* c >> 1 on a 32-bit value
ShiftRight1(c) ==
    <<(c[1] \div 2) + 128 * (c[2] % 2), (c[2] \div 2) + 128 * (c[3] % 2),
      (c[3] \div 2) + 128 * (c[4] % 2), c[4] \div 2>>

\* the reflected CRC-32 polynomial 0xEDB88320 of zlib
CrcPoly == <<32, 131, 184, 237>>

RECURSIVE CrcEntry(_, _)
CrcEntry(c, n) ==
    IF n = 0 THEN c
    ELSE CrcEntry(IF c[1] % 2 = 1 THEN Xor32(ShiftRight1(c), CrcPoly)
                  ELSE ShiftRight1(c), n - 1)

CrcTable == [i \in 1..256 |-> CrcEntry(<<i - 1, 0, 0, 0>>, 8) \o << >>] \o << >>

\* The CRC register after the bytes data[lo..hi]; the range is halved so
\* that the evaluation depth stays logarithmic in the length.
RECURSIVE CrcUpdate(_, _, _, _)
CrcUpdate(crc, data, lo, hi) ==
    IF lo > hi \/ Len(crc) # 4 THEN crc
    ELSE IF lo = hi
         THEN Xor32(CrcTable[Xor8[crc[1] + 1][data[lo] + 1] + 1],
                    <<crc[2], crc[3], crc[4], 0>>)
         ELSE LET mid == (lo + hi) \div 2
              IN  CrcUpdate(CrcUpdate(crc, data, lo, mid), data, mid + 1, hi)

\* zlib.crc32(data) & 0xFFFFFFFF, as an int
crc32(data) ==
    Xor32(CrcUpdate(<<255, 255, 255, 255>>, data, 1, Len(data)),
          <<255, 255, 255, 255>>) \o Zeros(4)

\* ------------------------------------------------------------------------
\* Archive_Formats.py: limits, layout, struct packing
\* ------------------------------------------------------------------------

MAX_FILES == 10000
MAX_PADDING == 7
MAX_CONTROL_BITS == 10
MAX_FILE_NAME_LEN == 273
\* 2 << 30
MAX_FILE_SIZE == <<0, 0, 0, 128, 0, 0, 0, 0>>

H_SIGNATURE_SIZE == 16
\* b"DBP-OTIK-HFHM" + b"\x00" * 3
H_SIGNATURE == <<68, 66, 80, 45, 79, 84, 73, 75, 45, 72, 70, 72, 77, 0, 0, 0>>
VERSION == 5
HEADER_SIZE == 96
CODE_TABLE_SIZE == 256
META_SIZE == HEADER_SIZE + CODE_TABLE_SIZE
OFF_CODETABLE == HEADER_SIZE
OFF_DATATABLE == OFF_CODETABLE + CODE_TABLE_SIZE

H_OFF_SIGNATURE == 0
H_OFF_VERSION == 16
H_OFF_FLAGS == 18
H_OFF_ARCHIVESIZE == 22
H_OFF_DATACRC32 == 30
H_OFF_HEADERCRC32 == 34
H_OFF_BYTESORDER == 38
H_OFF_ALIGN == 39
H_OFF_FILECOUNT == 40
H_OFF_DATASECT_OFFSET == 44
H_OFF_INDEXSECT_OFFSET == 52
H_OFF_RESERVED == 60

FH_SIGNATURE_SIZE == 4
\* b"DPFH"
FH_SIGNATURE == <<68, 80, 70, 72>>
FH_FIXED_SIZE == 30

FH_OFF_SIGNATURE == 0
FH_OFF_HEADERCRC32 == 4
FH_OFF_ORIGINAL_SIZE == 8
FH_OFF_COMPRESSED_SIZE == 12
FH_OFF_DATA_OFFSET == 16
FH_OFF_FLAGS == 24
FH_OFF_CONTROL_BITS == 25
FH_OFF_PADDING_HUFF == 26
FH_OFF_PADDING_HAMM == 27
FH_OFF_NAME_LEN == 28

endian_prefix(bytes_order_flag) == IF bytes_order_flag = 0 THEN "<" ELSE ">"

\* struct sizes of the formats "B", "H", "I", "Q"
SizeOf(format) ==
    CASE format = "B" -> 1 [] format = "H" -> 2 [] format = "I" -> 4 [] format = "Q" -> 8

\* struct.unpack_from(prefix + format, blob, offset)[0]
unpack(prefix, format, blob, offset) ==
    LET w == SizeOf(format)
    IN  [i \in 1..8 |->
            IF i > w THEN 0
            ELSE blob[offset + (IF prefix = "<" THEN i ELSE w + 1 - i)]]

\* struct.pack_into(prefix + format, blob, offset, data): the buffer after
pack(prefix, format, blob, offset, data) ==
    LET w == SizeOf(format)
    IN  [p \in 1..Len(blob) |->
            IF p > offset /\ p <= offset + w
            THEN data[IF prefix = "<" THEN p - offset ELSE w + 1 - (p - offset)]
            ELSE blob[p]]

\* buf[offset : offset + len(bytes)] = bytes
Splice(buf, offset, bytes) ==
    [p \in 1..Len(buf) |->
        IF p > offset /\ p <= offset + Len(bytes) THEN bytes[p - offset] ELSE buf[p]]

\* ------------------------------------------------------------------------
\* Archive_Formats.py: ArchiveHeader
\* ------------------------------------------------------------------------

\* ArchiveHeader(bytes_order=..., flags=...): the dataclass defaults
ArchiveHeader(bytes_order, flags) ==
    [version |-> Num(VERSION), flags |-> flags, archive_size |-> Num(0),
     data_crc32 |-> Num(0), header_crc32 |-> Num(0),
     bytes_order |-> bytes_order, align |-> 255, file_count |-> Num(0),
     data_section_offset |-> Num(0), index_section_offset |-> Num(0),
     reserved |-> Zeros(HEADER_SIZE - H_OFF_RESERVED),
     code_table |-> Zeros(CODE_TABLE_SIZE)]

\* META_SIZE + file_count * (MAX_FILE_NAME_LEN + FH_FIXED_SIZE)
\*           + file_count * MAX_FILE_SIZE, for file_count <= MAX_FILES
MaxArchiveSize(file_count) ==
    Add(Num(META_SIZE + file_count * (MAX_FILE_NAME_LEN + FH_FIXED_SIZE)),
        Mul(MAX_FILE_SIZE, file_count))

\* ArchiveHeader.validate_header(type): the class of the exception raised,
\* "" when the header passes
ArchiveHeader_validate_header(self, type) ==
    IF Less(self.data_crc32, Num(1)) THEN type
    ELSE IF Less(self.data_section_offset, Num(META_SIZE)) THEN type
    ELSE IF self.version # Num(VERSION) THEN type
    ELSE IF Less(Num(MAX_FILES), self.file_count) THEN type
    ELSE IF /\ self.index_section_offset # Num(0)
            /\ Less(self.index_section_offset, self.data_section_offset) THEN type
    ELSE IF self.reserved # Zeros(HEADER_SIZE - H_OFF_RESERVED) THEN "ImportWarning"
    ELSE IF Len(self.code_table) < CODE_TABLE_SIZE THEN type
    ELSE IF \/ Less(self.archive_size, Num(META_SIZE))
            \/ Less(MaxArchiveSize(Small(self.file_count)), self.archive_size) THEN type
    ELSE ""

\* the 96 header bytes, the fields packed in the order of the code (a
\* later field overwrites the bytes it shares with an earlier one)
HeaderFields(self) ==
    LET prefix == endian_prefix(self.bytes_order)
        b0  == Splice(Zeros(HEADER_SIZE), H_OFF_SIGNATURE, H_SIGNATURE)
        b1  == pack(prefix, "I", b0, H_OFF_VERSION, self.version)
        b2  == pack(prefix, "I", b1, H_OFF_FLAGS, self.flags)
        b3  == pack(prefix, "Q", b2, H_OFF_ARCHIVESIZE, self.archive_size)
        b4  == pack(prefix, "I", b3, H_OFF_DATACRC32, self.data_crc32)
        b5  == pack(prefix, "I", b4, H_OFF_HEADERCRC32, self.header_crc32)
        b6  == pack("", "B", b5, H_OFF_BYTESORDER, Num(self.bytes_order % 256))
        b7  == pack("", "B", b6, H_OFF_ALIGN, Num(self.align % 256))
        b8  == pack(prefix, "I", b7, H_OFF_FILECOUNT, self.file_count)
        b9  == pack(prefix, "Q", b8, H_OFF_DATASECT_OFFSET, self.data_section_offset)
        b10 == pack(prefix, "Q", b9, H_OFF_INDEXSECT_OFFSET, self.index_section_offset)
    IN  Splice(b10, H_OFF_RESERVED, self.reserved)

\* ArchiveHeader.to_bytes(): [err, out]
ArchiveHeader_to_bytes(self) ==
    LET err == ArchiveHeader_validate_header(self, "RuntimeError")
    IN  IF err # "" THEN [err |-> err, out |-> << >>]
        ELSE IF Len(self.code_table) # CODE_TABLE_SIZE
             THEN [err |-> "ValueError", out |-> << >>]
             ELSE [err |-> "", out |-> HeaderFields(self) \o self.code_table]

\* the fields ArchiveHeader.from_bytes reads from the 352 bytes
ParsedHeader(data) ==
    LET header      == SubSeq(data, 1, HEADER_SIZE)
        bytes_order == header[H_OFF_BYTESORDER + 1]
        prefix      == endian_prefix(bytes_order)
    IN  [version              |-> unpack(prefix, "I", header, H_OFF_VERSION),
         flags                |-> unpack(prefix, "I", header, H_OFF_FLAGS),
         archive_size         |-> unpack(prefix, "Q", header, H_OFF_ARCHIVESIZE),
         data_crc32           |-> unpack(prefix, "I", header, H_OFF_DATACRC32),
         header_crc32         |-> unpack(prefix, "I", header, H_OFF_HEADERCRC32),
         bytes_order          |-> bytes_order,
         align                |-> 255,
         file_count           |-> unpack(prefix, "I", header, H_OFF_FILECOUNT),
         data_section_offset  |-> unpack(prefix, "Q", header, H_OFF_DATASECT_OFFSET),
         index_section_offset |-> unpack(prefix, "Q", header, H_OFF_INDEXSECT_OFFSET),
         reserved             |-> SubSeq(header, H_OFF_RESERVED + 1, HEADER_SIZE),
         code_table           |-> SubSeq(data, HEADER_SIZE + 1,
                                         HEADER_SIZE + CODE_TABLE_SIZE)]

\* ArchiveHeader.from_bytes(data): [err, H]
ArchiveHeader_from_bytes(data) ==
    IF Len(data) < META_SIZE THEN [err |-> "ValueError", H |-> << >>]
    ELSE With(ParsedHeader(data), LAMBDA H :
            [err |-> ArchiveHeader_validate_header(H, "ImportError"), H |-> H])

\* ArchiveHeader.compute_header_crc32(): [err, crc]
ArchiveHeader_compute_header_crc32(self) ==
    With(ArchiveHeader_to_bytes(self), LAMBDA ser :
        IF ser.err # "" THEN [err |-> ser.err, crc |-> Num(0)]
        ELSE [err |-> "",
              crc |-> crc32(Splice(ser.out, H_OFF_HEADERCRC32, Zeros(4)))])

\* ArchiveHeader.validate_crc32(): the exception raised, "" when it returns
ArchiveHeader_validate_crc32(self) ==
    With(ArchiveHeader_compute_header_crc32(self), LAMBDA computed :
        IF computed.err # "" THEN computed.err
        ELSE IF self.header_crc32 # computed.crc THEN "ValueError" ELSE "")

\* ------------------------------------------------------------------------
\* Archive_Formats.py: HeaderFile
\* ------------------------------------------------------------------------

\* HeaderFile(...): a record of the data table; name holds the UTF-8 bytes
HeaderFile(name, lengths_codes, flags, padding_Huff, control_bits, padding_Hamm, original_size, compressed_size, crc, data_offset) ==
    [crc32 |-> crc, original_size |-> original_size,
     compressed_size |-> compressed_size, data_offset |-> data_offset,
     flags |-> flags, control_bits |-> control_bits,
     padding_Huff |-> padding_Huff, padding_Hamm |-> padding_Hamm,
     name |-> name, lengths_codes |-> lengths_codes, total_padd |-> 0]

\* HeaderFile.validate_header(type): the class of the exception raised, ""
\* when the record passes. The zip-bomb test (1000 > ratio < 0) holds for
\* no ratio and raises nothing.
HeaderFile_validate_header(self, type) ==
    IF Len(self.name) > MAX_FILE_NAME_LEN THEN "ValueError"
    ELSE IF Less(self.data_offset, Num(META_SIZE)) THEN type
    ELSE IF \/ Less(MAX_FILE_SIZE, self.compressed_size)
            \/ /\ Less(MAX_FILE_SIZE, self.original_size)
               /\ self.compressed_size = Num(0) THEN type
    ELSE IF self.control_bits > MAX_CONTROL_BITS THEN type
    ELSE IF self.padding_Huff > MAX_PADDING \/ self.padding_Hamm > MAX_PADDING THEN type
    ELSE ""

\* HeaderFile.to_bytes(prefix): [err, out]
HeaderFile_to_bytes(self, prefix) ==
    LET err == HeaderFile_validate_header(self, "RuntimeError")
        b0 == Splice(Zeros(FH_FIXED_SIZE), FH_OFF_SIGNATURE, FH_SIGNATURE)
        b1 == pack(prefix, "I", b0, FH_OFF_HEADERCRC32, self.crc32)
        b2 == pack(prefix, "I", b1, FH_OFF_ORIGINAL_SIZE, self.original_size)
        b3 == pack(prefix, "I", b2, FH_OFF_COMPRESSED_SIZE, self.compressed_size)
        b4 == pack(prefix, "Q", b3, FH_OFF_DATA_OFFSET, self.data_offset)
        b5 == pack("", "B", b4, FH_OFF_FLAGS, Num(self.flags % 256))
        b6 == pack("", "B", b5, FH_OFF_CONTROL_BITS, Num(self.control_bits % 256))
        b7 == pack("", "B", b6, FH_OFF_PADDING_HUFF, Num(self.padding_Huff % 256))
        b8 == pack("", "B", b7, FH_OFF_PADDING_HAMM, Num(self.padding_Hamm % 256))
        b9 == pack(prefix, "H", b8, FH_OFF_NAME_LEN, Num(Len(self.name)))
    IN  IF err # "" THEN [err |-> err, out |-> << >>]
        ELSE [err |-> "", out |-> b9 \o self.name]

\* name_b.decode("utf-8") fails on a byte that starts no character; the
\* names of the model are ASCII, where that is any byte above 127
HeaderFile_from_bytes(data, name_b, prefix) ==
    IF Len(data) < FH_FIXED_SIZE THEN [err |-> "EOFError", H |-> << >>]
    ELSE IF SubSeq(data, FH_OFF_SIGNATURE + 1, FH_SIGNATURE_SIZE) # FH_SIGNATURE
    THEN [err |-> "ValueError", H |-> << >>]
    ELSE IF \E i \in 1..Len(name_b) : name_b[i] > 127
    THEN [err |-> "UnicodeDecodeError", H |-> << >>]
    ELSE With(HeaderFile(name_b, Zeros(CODE_TABLE_SIZE),
                         data[FH_OFF_FLAGS + 1], data[FH_OFF_PADDING_HUFF + 1],
                         data[FH_OFF_CONTROL_BITS + 1], data[FH_OFF_PADDING_HAMM + 1],
                         unpack(prefix, "I", data, FH_OFF_ORIGINAL_SIZE),
                         unpack(prefix, "I", data, FH_OFF_COMPRESSED_SIZE),
                         unpack(prefix, "I", data, FH_OFF_HEADERCRC32),
                         unpack(prefix, "Q", data, FH_OFF_DATA_OFFSET)),
              LAMBDA H :
                [err |-> HeaderFile_validate_header(H, "ImportError"), H |-> H])

\* ------------------------------------------------------------------------
\* Archiver.py: names, files
\* ------------------------------------------------------------------------

\* The constants Archive_Formats.py defines at module level. Archiver.py
\* reads them as attributes of the module (otik.NAME) and, through its
\* star import, as globals of its own.
otik ==
    [MAX_FILES |-> MAX_FILES, MAX_PADDING |-> MAX_PADDING,
     MAX_CONTROL_BITS |-> MAX_CONTROL_BITS, MAX_FILE_NAME_LEN |-> MAX_FILE_NAME_LEN,
     H_SIGNATURE_SIZE |-> H_SIGNATURE_SIZE, VERSION |-> VERSION,
     HEADER_SIZE |-> HEADER_SIZE, CODE_TABLE_SIZE |-> CODE_TABLE_SIZE,
     META_SIZE |-> META_SIZE, OFF_CODETABLE |-> OFF_CODETABLE,
     OFF_DATATABLE |-> OFF_DATATABLE, FH_SIGNATURE_SIZE |-> FH_SIGNATURE_SIZE,
     FH_FIXED_SIZE |-> FH_FIXED_SIZE]

\* whether the module has an attribute (a global) of that name
Defined(name) == name \in DOMAIN otik

\* a file of the file system: absent, or present with its bytes
NoFile == [exists |-> FALSE, bytes |-> << >>]
File(bytes) == [exists |-> TRUE, bytes |-> bytes]

align_up(value, align) == ((value + align - 1) \div align) * align

pad_to8(n) == align_up(n, 8)

\* ------------------------------------------------------------------------
\* Archiver.py: ArchiveWriter
\* ------------------------------------------------------------------------

\* ArchiveWriter.__init__
ArchiveWriter_init(args) ==
    [path |-> args.output,
     header |-> ArchiveHeader(args.bytes_order, Num(args.mode)),
     entries |-> << >>]

\* ArchiveWriter.add_file: [self, err]
add_file(self, name, meta_data) ==
    IF Len(self.entries) > 1 THEN [self |-> self, err |-> "NotImplementedError"]
    ELSE
        LET entry == HeaderFile(name, meta_data.lengths_codes, meta_data.flags,
                                meta_data.padding_huff, meta_data.r,
                                meta_data.padding_hamm, Num(meta_data.raw_size),
                                Num(meta_data.compressed_size),
                                crc32(meta_data.data), Num(0))
        IN  [self |-> [self EXCEPT
                          !.header.code_table = meta_data.lengths_codes,
                          !.entries = Append(@, [hdr |-> entry, data |-> meta_data.data])],
             err |-> ""]

\* Stages 1 and 3 of finalize: the records serialised in order, up to the
\* first one that to_bytes refuses
RECURSIVE TableBlocks(_, _, _)
TableBlocks(entries, prefix, i) ==
    IF i > Len(entries) THEN [err |-> "", blocks |-> << >>]
    ELSE With(HeaderFile_to_bytes(entries[i].hdr, prefix), LAMBDA b :
            IF b.err # "" THEN [err |-> b.err, blocks |-> << >>]
            ELSE With(TableBlocks(entries, prefix, i + 1), LAMBDA rest :
                    [err |-> rest.err, blocks |-> <<b.out>> \o rest.blocks]))

\* the offset after the blocks, each followed by padding to a multiple of 8
RECURSIVE TableEnd(_, _)
TableEnd(blocks, cur_offset) ==
    IF blocks = << >> THEN cur_offset
    ELSE TableEnd(Tail(blocks), align_up(cur_offset + Len(Head(blocks)), 8))

\* Stage 2 of finalize: data_offset of every record, payloads laid out in
\* order from cur_data_offset
RECURSIVE AssignOffsets(_, _)
AssignOffsets(entries, cur_data_offset) ==
    IF entries = << >> THEN << >>
    ELSE LET e == Head(entries)
         IN  IF e.hdr.compressed_size = Num(0)
             THEN <<[e EXCEPT !.hdr.data_offset = Num(0)]>>
                  \o AssignOffsets(Tail(entries), cur_data_offset)
             ELSE <<[e EXCEPT !.hdr.data_offset = Num(cur_data_offset)]>>
                  \o AssignOffsets(Tail(entries), cur_data_offset + Len(e.data))

\* Stage 4 of finalize: the payloads of the records with compressed_size > 0
RECURSIVE DataSection(_)
DataSection(entries) ==
    IF entries = << >> THEN << >>
    ELSE (IF Head(entries).hdr.compressed_size = Num(0) THEN << >>
          ELSE Head(entries).data) \o DataSection(Tail(entries))

\* Stage 7 of finalize: the blocks as written, each padded to 8 from abs_pos
RECURSIVE WriteBlocks(_, _)
WriteBlocks(blocks, abs_pos) ==
    IF blocks = << >> THEN << >>
    ELSE LET end == abs_pos + Len(Head(blocks))
         IN  Head(blocks) \o Zeros(align_up(end, 8) - end)
             \o WriteBlocks(Tail(blocks), align_up(end, 8))

RECURSIVE SumLen(_)
SumLen(blocks) == IF blocks = << >> THEN 0 ELSE Len(Head(blocks)) + SumLen(Tail(blocks))

RECURSIVE SumPad(_)
SumPad(blocks) ==
    IF blocks = << >> THEN 0
    ELSE pad_to8(Len(Head(blocks))) - Len(Head(blocks)) + SumPad(Tail(blocks))

\* os.path.dirname of an output path [dir, name]
Dirname(path) == path.dir

\* the file system of the model: the file at the output path and the
\* temporary file of mkstemp next to it
NoFiles == [dest |-> NoFile, tmp |-> NoFile]

\* Stages 6 and 7 of finalize: the header with its checksum, then the
\* temporary file written and moved over the output path
FinalizeStage6(self, fs, off, blocks, data_section_bytes, blob1) ==
    IF blob1.err # "" THEN [self |-> self, fs |-> fs, err |-> blob1.err]
    ELSE With([self EXCEPT !.header.header_crc32 = crc32(blob1.out)], LAMBDA s6 :
            IF Dirname(s6.path) = ""
            THEN [self |-> s6, fs |-> fs, err |-> "FileNotFoundError"]
            ELSE [self |-> s6,
                  fs |-> [dest |-> File(ArchiveHeader_to_bytes(s6.header).out
                                        \o WriteBlocks(blocks, off)
                                        \o data_section_bytes),
                          tmp |-> NoFile],
                  err |-> ""])

\* Stages 4 and 5 of finalize: the data section and the fields of the
\* header that depend on it
FinalizeStage4(self, fs, off, t3, data_section_bytes) ==
    IF t3.err # "" THEN [self |-> self, fs |-> fs, err |-> t3.err]
    ELSE With([self EXCEPT
                  !.header.data_crc32 = crc32(data_section_bytes),
                  !.header.archive_size =
                      Num(off + (SumLen(t3.blocks) + SumPad(t3.blocks))
                          + Len(data_section_bytes))],
              LAMBDA s5 :
                FinalizeStage6(s5, fs, off, t3.blocks, data_section_bytes,
                               ArchiveHeader_to_bytes(s5.header)))

\* Stages 2 and 3 of finalize: the offsets of the payloads, the table
\* serialised again
FinalizeStage2(self, fs, off, t1) ==
    IF t1.err # "" THEN [self |-> self, fs |-> fs, err |-> t1.err]
    ELSE With(TableEnd(t1.blocks, off), LAMBDA data_section_offset :
            With([self EXCEPT
                     !.entries = AssignOffsets(self.entries, data_section_offset),
                     !.header.data_section_offset = Num(data_section_offset)],
                 LAMBDA s2 :
                    FinalizeStage4(s2, fs, off,
                                   TableBlocks(s2.entries, endian_prefix(s2.header.bytes_order), 1),
                                   DataSection(s2.entries))))

\* Stage 1 of finalize, the offset of the data table being off, and the
\* stages after it: [self, fs, err]
FinalizeStages(self, fs, off) ==
    With([self EXCEPT !.entries =
             [i \in 1..Len(self.entries) |->
                 [self.entries[i] EXCEPT !.hdr.data_offset = Num(0)]]],
         LAMBDA s1 :
            FinalizeStage2(s1, fs, off,
                           TableBlocks(s1.entries, endian_prefix(s1.header.bytes_order), 1)))

\* (mutant of finalize: the archive is written in place, the destination
\* is created or truncated before the stages run)
finalize_in_place(self, fs) ==
    LET opened == [fs EXCEPT !.dest = File(<< >>)]
        s0 == [self EXCEPT !.header.file_count = Num(Len(self.entries))]
    IN  IF Len(self.header.code_table) # CODE_TABLE_SIZE
        THEN [self |-> self, fs |-> opened, err |-> "RuntimeError"]
        ELSE IF ~Defined("_OFF_DATATABLE")
        THEN [self |-> s0, fs |-> opened, err |-> "AttributeError"]
        ELSE FinalizeStages(s0, opened, otik["_OFF_DATATABLE"])

\* ArchiveWriter.finalize: [self, fs, err]. The stages read the offset of
\* the data table as otik._OFF_DATATABLE.
finalize(self, fs) ==
    LET s0 == [self EXCEPT !.header.file_count = Num(Len(self.entries))]
    IN  IF Len(self.header.code_table) # CODE_TABLE_SIZE
        THEN [self |-> self, fs |-> fs, err |-> "RuntimeError"]
        ELSE IF ~Defined("_OFF_DATATABLE")
        THEN [self |-> s0, fs |-> fs, err |-> "AttributeError"]
        ELSE FinalizeStages(s0, fs, otik["_OFF_DATATABLE"])

\* ------------------------------------------------------------------------
\* Archiver.py: ArchiveReader
\* ------------------------------------------------------------------------

\* ArchiveReader.__init__: the header attribute is only annotated, not set
ArchiveReader_init ==
    [has_header |-> FALSE, header |-> ArchiveHeader(0, Num(0)),
     local_file_headers |-> << >>]

\* an int as a position in a file of at most limit bytes
Clamp(x, limit) == IF Less(Num(limit), x) THEN limit ELSE Small(x)

\* f.seek(start); f.read(count): the bytes of the file from start on, none
\* when start lies past its end (a start too large for the platform's
\* seek, which raises OSError there, is read the same way)
ReadAt(bytes, start, count) ==
    LET from == Clamp(start, Len(bytes))
        to   == Clamp(Add(start, count), Len(bytes))
    IN  SubSeq(bytes, from + 1, to)

RECURSIVE ParseRecords(_, _, _, _)

\* one round of the loop of _parse_datatable: the record whose fixed part
\* hdr_blob was read at pos, then the rounds after it
ParseRecord(self, bytes, pos, i, size, hdr_blob) ==
    IF Len(hdr_blob) < size THEN [headers |-> << >>, err |-> "EOFError"]
    ELSE With(unpack(endian_prefix(self.header.bytes_order), "H", hdr_blob, 28),
              LAMBDA name_len :
         With(ReadAt(bytes, Num(pos + size), name_len), LAMBDA name_b :
            IF Len(name_b) < Small(name_len)
            THEN [headers |-> << >>, err |-> "EOFError"]
            ELSE With(HeaderFile_from_bytes(hdr_blob, name_b,
                                            endian_prefix(self.header.bytes_order)),
                      LAMBDA parsed :
                    IF parsed.err # "" THEN [headers |-> << >>, err |-> parsed.err]
                    ELSE With(ParseRecords(self, bytes,
                                           align_up(pos + size + Len(name_b), 8), i + 1),
                              LAMBDA rest :
                            [headers |-> <<[parsed.H EXCEPT
                                               !.lengths_codes = self.header.code_table]>>
                                         \o rest.headers,
                             err |-> rest.err]))))

\* the loop of _parse_datatable from record i at position pos, each
\* record read with the global FILE_HEADER_FIXED_SIZE: [headers, err]
ParseRecords(self, bytes, pos, i) ==
    IF i >= Small(self.header.file_count) THEN [headers |-> << >>, err |-> ""]
    ELSE IF ~Defined("FILE_HEADER_FIXED_SIZE")
    THEN [headers |-> << >>, err |-> "NameError"]
    ELSE ParseRecord(self, bytes, pos, i, otik["FILE_HEADER_FIXED_SIZE"],
                     ReadAt(bytes, Num(pos), Num(otik["FILE_HEADER_FIXED_SIZE"])))

\* ArchiveReader._parse_datatable: [self, err]; the records parsed before
\* a failure stay in the list
parse_datatable(self, bytes) ==
    IF ~Defined("_OFF_DATATABLE") THEN [self |-> self, err |-> "AttributeError"]
    ELSE With(ParseRecords(self, bytes, otik["_OFF_DATATABLE"], 0), LAMBDA p :
            [self |-> [self EXCEPT !.local_file_headers = @ \o p.headers],
             err |-> p.err])

\* ArchiveReader.open: [self, err, stage], stage naming the call that raised
ArchiveReader_open(self, file) ==
    IF ~file.exists
    THEN [self |-> self, err |-> "FileNotFoundError", stage |-> "open"]
    ELSE IF Len(file.bytes) < HEADER_SIZE + CODE_TABLE_SIZE
    THEN [self |-> self, err |-> "ValueError", stage |-> "read"]
    ELSE With(ArchiveHeader_from_bytes(Take(file.bytes, HEADER_SIZE + CODE_TABLE_SIZE)),
              LAMBDA parsed :
            IF parsed.err # ""
            THEN [self |-> self, err |-> parsed.err, stage |-> "from_bytes"]
            ELSE With([self EXCEPT !.has_header = TRUE, !.header = parsed.H],
                      LAMBDA s1 :
                 With(ArchiveHeader_validate_crc32(s1.header), LAMBDA crc_err :
                    IF crc_err # ""
                    THEN [self |-> s1, err |-> crc_err, stage |-> "validate_crc32"]
                    ELSE With(parse_datatable(s1, file.bytes), LAMBDA table :
                            [self |-> table.self, err |-> table.err,
                             stage |-> IF table.err # "" THEN "_parse_datatable"
                                       ELSE ""]))))

\* the loop of iter_files from record i on: the pairs yielded before the
\* first payload whose CRC32 differs from its record
RECURSIVE IterFrom(_, _, _)
IterFrom(headers, bytes, i) ==
    IF i > Len(headers) THEN [yielded |-> << >>, err |-> ""]
    ELSE
        LET hdr   == headers[i]
            empty == hdr.compressed_size = Num(0) \/ hdr.data_offset = Num(0)
        IN  With(IF empty THEN << >>
                 ELSE ReadAt(bytes, hdr.data_offset, hdr.compressed_size),
                 LAMBDA data :
                IF ~empty /\ crc32(data) # hdr.crc32
                THEN [yielded |-> << >>, err |-> "ValueError"]
                ELSE With(IterFrom(headers, bytes, i + 1), LAMBDA rest :
                        [yielded |-> <<[hdr |-> hdr, data |-> data]>> \o rest.yielded,
                         err |-> rest.err]))

\* ArchiveReader.iter_files, run to its end: [yielded, err]. Reading
\* self.header of a reader whose open() never assigned it raises
\* AttributeError.
iter_files(self, file) ==
    IF ~self.has_header THEN [yielded |-> << >>, err |-> "AttributeError"]
    ELSE IF ~file.exists THEN [yielded |-> << >>, err |-> "FileNotFoundError"]
    ELSE IterFrom(self.local_file_headers, file.bytes, 1)

\* ArchiveReader.verify_data_crc: [ok, err]
verify_data_crc(self, file) ==
    IF ~file.exists THEN [ok |-> FALSE, err |-> "FileNotFoundError"]
    ELSE IF ~self.has_header THEN [ok |-> FALSE, err |-> "AttributeError"]
    ELSE
        LET start == self.header.data_section_offset
            end   == self.header.archive_size
            from  == Clamp(start, Len(file.bytes))
            to    == Clamp(end, Len(file.bytes))
        IN  IF start = Num(0) \/ ~Less(start, end)
            THEN [ok |-> crc32(<< >>) = self.header.data_crc32, err |-> ""]
            ELSE [ok |-> crc32(SubSeq(file.bytes, from + 1, to)) = self.header.data_crc32,
                  err |-> ""]

\* ------------------------------------------------------------------------
\* cli.py, main.py: flags, encode_file, decode_file
\* ------------------------------------------------------------------------

Bit(b) == IF b THEN 1 ELSE 0

\* cli.build_flags
build_flags(args) ==
    Bit(args.huffman) + 2 * Bit(args.hamming) + 4 * Bit(args.crc32)
    + 8 * Bit(args.sha256) + 16 * Bit(args.index_table)

\* cli.bytes_order_to_flag
bytes_order_to_flag(order) == IF order = "little" THEN 0 ELSE 1

\* main.encode_file on the bytes of the input file: [err, res]
encode_file(raw_data, args) ==
    With(IF args.huffman THEN Huffman_pack(Huffman_init, raw_data).ret
         ELSE [err |-> "", packed |-> raw_data, lengths_codes |-> Zeros(256),
               padding |-> 0],
         LAMBDA huff :
        IF huff.err # "" THEN [err |-> huff.err, res |-> << >>]
        ELSE IF args.hamming /\ args.r < 2 THEN [err |-> "ValueError", res |-> << >>]
        ELSE With(IF args.hamming THEN Hamming_pack(Hamming_init(args.r), huff.packed)
                  ELSE [encoded_data |-> huff.packed, padding |-> 0],
                  LAMBDA hamm :
                [err |-> "",
                 res |-> [data            |-> hamm.encoded_data,
                          lengths_codes   |-> huff.lengths_codes,
                          flags           |-> args.mode,
                          padding_huff    |-> huff.padding,
                          r               |-> IF args.hamming THEN args.r ELSE 0,
                          padding_hamm    |-> hamm.padding,
                          raw_size        |-> Len(raw_data),
                          compressed_size |-> Len(hamm.encoded_data)]]))

\* (mutant of decode_file: the Huffman stage runs before the Hamming stage)
decode_file_huffman_first(data, header) ==
    LET huffman_used == BitAt(header.flags, 0) = 1
        hamming_used == BitAt(header.flags, 1) = 1
    IN  IF hamming_used /\ header.control_bits < 2
        THEN [err |-> "ValueError", out |-> << >>, calls |-> << >>]
        ELSE With(IF huffman_used
                  THEN Huffman_unpack(Huffman_init, data, header.lengths_codes,
                                      header.padding_Huff).ret
                  ELSE data,
                  LAMBDA d1 :
             With(IF hamming_used
                  THEN Hamming_unpack(Hamming_init(header.control_bits), d1,
                                      header.padding_Hamm).decoded_data
                  ELSE d1,
                  LAMBDA d2 :
                [err |-> "", out |-> Take(d2, Clamp(header.original_size, Len(d2))),
                 calls |-> (IF huffman_used
                            THEN <<[fn |-> "Huffman.unpack", arg |-> data]>>
                            ELSE << >>)
                           \o (IF hamming_used
                               THEN <<[fn |-> "Hamming.unpack", arg |-> d1]>>
                               ELSE << >>)]))

\* main.decode_file: [err, out, calls], calls being the codec calls made,
\* in order, each with the data it was given
decode_file(data, header) ==
    LET huffman_used == BitAt(header.flags, 0) = 1
        hamming_used == BitAt(header.flags, 1) = 1
    IN  IF hamming_used /\ header.control_bits < 2
        THEN [err |-> "ValueError", out |-> << >>, calls |-> << >>]
        ELSE With(IF hamming_used
                  THEN Hamming_unpack(Hamming_init(header.control_bits), data,
                                      header.padding_Hamm).decoded_data
                  ELSE data,
                  LAMBDA d1 :
             With(IF huffman_used
                  THEN Huffman_unpack(Huffman_init, d1, header.lengths_codes,
                                      header.padding_Huff).ret
                  ELSE d1,
                  LAMBDA d2 :
                [err |-> "", out |-> Take(d2, Clamp(header.original_size, Len(d2))),
                 calls |-> (IF hamming_used
                            THEN <<[fn |-> "Hamming.unpack", arg |-> data]>>
                            ELSE << >>)
                           \o (IF huffman_used
                               THEN <<[fn |-> "Huffman.unpack", arg |-> d1]>>
                               ELSE << >>)]))

\* the loop of main.unpack_archive over iter_files: every yielded entry is
\* decoded and written out under its name; [out, err]
RECURSIVE DecodeAll(_, _)
DecodeAll(yielded, i) ==
    IF i > Len(yielded) THEN [out |-> << >>, err |-> ""]
    ELSE With(decode_file(yielded[i].data, yielded[i].hdr), LAMBDA d :
            IF d.err # "" THEN [out |-> << >>, err |-> d.err]
            ELSE With(DecodeAll(yielded, i + 1), LAMBDA rest :
                    [out |-> <<[name |-> yielded[i].hdr.name, raw_data |-> d.out]>>
                             \o rest.out,
                     err |-> rest.err]))

unpack_files(self, file) ==
    With(iter_files(self, file), LAMBDA it :
    With(DecodeAll(it.yielded, 1), LAMBDA dec :
        [out |-> dec.out, err |-> IF dec.err # "" THEN dec.err ELSE it.err]))

\* ------------------------------------------------------------------------
\* State
\* ------------------------------------------------------------------------

VARIABLES
    huffman,    \* the Huffman instance: freqs, lengths, canonical_codes
    h_data,     \* the bytes given to Huffman.pack
    h_ret,      \* what Huffman.pack returned (or the error it raised)
    h_out,      \* what Huffman.unpack returned
    h_pc,       \* "new", "packed", "pack_failed", "unpacked"
    hamming,    \* the Hamming instance: r, n, k, H
    b_data,     \* the k data bits given to _encode_block
    b_code,     \* the codeword as the decoder gets it
    b_flips,    \* the positions (1..n) of the codeword flipped in between
    b_dec,      \* what _check_errors_block and _decode_block returned
    s_data,     \* the bytes given to Hamming.pack
    s_ret,      \* what Hamming.pack returned
    s_recv,     \* the encoded bytes as Hamming.unpack gets them
    s_flips,    \* the bit numbers (1-based) of the stream flipped in between
    s_out,      \* what Hamming.unpack returned
    m_pc,       \* Hamming: "new", "encoded", "decoded", "packed", "unpacked"
    a_args,     \* the arguments of the pack run, after prepare_pack_args
    a_raw,      \* the bytes of the input file encode_file read last
    a_meta,     \* what encode_file returned last
    writer,     \* the ArchiveWriter: path, header, entries
    w_pc,       \* pack_archive: "ready", "encoded", "..._failed", "finalized"
    w_err,      \* the exception that ended the pack run
    fs,         \* the file at the archive path and the temporary file
    fs_before,  \* the file at the archive path before the run
    env,        \* the archive found on disk: bytes, payload offset and size
    tamper,     \* the byte of the archive changed on disk, if any
    reader,     \* the ArchiveReader: header, _local_file_headers
    r_pc,       \* the reader: "new", "opened", "iterated", "verified"
    r_open,     \* how open() ended: the exception and where it was raised
    r_files,    \* the files the loop over iter_files wrote, and its exception
    r_verify,   \* what verify_data_crc returned
    rec_hdr,    \* a record of the data table (HeaderFile)
    rec_prefix, \* the byte-order prefix the record is written and read with
    rec_ser,    \* how HeaderFile.to_bytes ended on the record
    rec_par,    \* how HeaderFile.from_bytes ended on the record's bytes
    rec_pc,     \* the record: "new", "built", "serialized", "parsed"
    d_raw,      \* the bytes of the file an entry was encoded from
    d_data,     \* the stored data of the entry, as iter_files yields it
    d_hdr,      \* the record of the entry, as iter_files yields it
    d_res,      \* what decode_file returned, and the codec calls it made
    d_pc,       \* decode_file: "new", "yielded", "done"
    c_kind,     \* what the conversion started from: "bytes" or "bits"
    c_in,       \* the bytes, or the bit list, given to the first conversion
    c_mid,      \* what the first conversion returned
    c_out,      \* what the opposite conversion returned for c_mid
    c_pc,       \* the conversions: "new", "half", "done"
    hd_in,      \* an archive header (ArchiveHeader)
    hd_ser,     \* how ArchiveHeader.to_bytes ended on it, and the bytes
    hd_par,     \* how ArchiveHeader.from_bytes ended on the bytes, and the header
    hd_pc,      \* the header: "new", "built", "serialized", "parsed"
    h_prev,     \* the calls made on the Huffman instance, in order
    h_fresh     \* what the last call returns on a new Huffman instance

huffVars == <<huffman, h_data, h_ret, h_out, h_pc>>
blockVars == <<b_data, b_code, b_flips, b_dec>>
streamVars == <<s_data, s_ret, s_recv, s_flips, s_out>>
hammVars == <<hamming, blockVars, streamVars, m_pc>>

arcVars ==
    <<a_args, a_raw, a_meta, writer, w_pc, w_err, fs, fs_before, env, tamper,
      reader, r_pc, r_open, r_files, r_verify>>

recVars == <<rec_hdr, rec_prefix, rec_ser, rec_par, rec_pc>>
decVars == <<d_raw, d_data, d_hdr, d_res, d_pc>>
convVars == <<c_kind, c_in, c_mid, c_out, c_pc>>
hdrVars == <<hd_in, hd_ser, hd_par, hd_pc>>
reuseVars == <<h_prev, h_fresh>>
extVars == <<hdrVars, reuseVars>>
unitVars == <<recVars, decVars, convVars, extVars>>

vars == <<huffVars, hammVars, arcVars, unitVars>>

\* ------------------------------------------------------------------------
\* Huffman codec: pack on a fresh instance, then unpack
\* ------------------------------------------------------------------------

HuffmanIdle ==
    /\ huffman = Huffman_init
    /\ h_data = << >>
    /\ h_ret = [err |-> "unset"]
    /\ h_out = << >>
    /\ h_pc = "new"

\* a longer input with three different frequencies: b'AAAABBBCC'
SampleText == <<65, 65, 65, 65, 66, 66, 66, 67, 67>>

\* h = Huffman(); h.pack(data)
HuffmanPack ==
    /\ h_pc = "new"
    /\ \E data \in ByteStrings(ByteVals, MaxLen) \cup {SampleText} :
          LET r == Huffman_pack(huffman, data)
          IN /\ huffman' = r.self
             /\ h_data' = data
             /\ h_ret' = r.ret
             /\ h_pc' = IF r.ret.err = "" THEN "packed" ELSE "pack_failed"
    /\ UNCHANGED <<unitVars, h_out, hammVars, arcVars>>

\* unpack(packed, lengths_codes, padding) with the values pack returned,
\* on the same instance (as the unit tests do) or on a new one (as
\* main.decode_file does)
HuffmanUnpack ==
    /\ h_pc = "packed"
    /\ \E fresh \in BOOLEAN :
          LET r == Huffman_unpack(IF fresh THEN Huffman_init ELSE huffman,
                                  h_ret.packed, h_ret.lengths_codes, h_ret.padding)
          IN /\ huffman' = r.self
             /\ h_out' = r.ret
    /\ h_pc' = "unpacked"
    /\ UNCHANGED <<unitVars, h_data, h_ret, hammVars, arcVars>>

\* ------------------------------------------------------------------------
\* Hamming codec, one block: _encode_block, bit errors, _decode_block
\* ------------------------------------------------------------------------

\* largest r of the block-level runs (every k-bit block is enumerated)
MaxBlockR == 3

\* largest r and longest input of the stream-level runs
MaxStreamR == 4
MaxStreamBytes == 3

\* the byte values of the stream-level inputs: 'A' and 0xAF
StreamVals == {65, 175}

HammingIdle ==
    /\ hamming = [r |-> 0]
    /\ b_data = << >> /\ b_code = << >> /\ b_flips = {} /\ b_dec = [done |-> FALSE]
    /\ s_data = << >> /\ s_ret = [padding |-> 0] /\ s_recv = << >>
    /\ s_flips = {} /\ s_out = [done |-> FALSE]
    /\ m_pc = "new"

\* ham = Hamming(r); ham._encode_block(data_bits)
BlockEncode ==
    /\ m_pc = "new"
    /\ \E r \in 2..MaxBlockR :
          LET self == Hamming_init(r)
          IN \E data_bits \in [1..self.k -> {0, 1}] :
                /\ hamming' = self
                /\ b_data' = data_bits
                /\ b_code' = encode_block(self, data_bits)
    /\ m_pc' = "encoded"
    /\ UNCHANGED <<unitVars, b_flips, b_dec, streamVars, huffVars, arcVars>>

\* one bit of the codeword is inverted on the way (at most two, at
\* different positions)
BlockFlip ==
    /\ m_pc = "encoded"
    /\ Cardinality(b_flips) < 2
    /\ \E pos \in (1..hamming.n) \ b_flips :
          /\ b_code' = [b_code EXCEPT ![pos] = 1 - @]
          /\ b_flips' = b_flips \cup {pos}
    /\ UNCHANGED <<unitVars, hamming, b_data, b_dec, streamVars, m_pc, huffVars, arcVars>>

\* ham._decode_block(encoded_bits)
BlockDecode ==
    /\ m_pc = "encoded"
    /\ LET c == check_errors_block(hamming, b_code)
           d == decode_block(hamming, b_code)
       IN b_dec' = [done |-> TRUE, data |-> d.data, corrected |-> d.corrected,
                    uncorrectable |-> d.uncorrectable,
                    syndrome_val |-> c.syndrome_val, double_error |-> c.double_error]
    /\ m_pc' = "decoded"
    /\ UNCHANGED <<unitVars, hamming, b_data, b_code, b_flips, streamVars, huffVars, arcVars>>

\* ------------------------------------------------------------------------
\* Hamming codec, byte streams: pack, bit errors, unpack
\* ------------------------------------------------------------------------

\* ham = Hamming(r); ham.pack(data)
StreamPack ==
    /\ m_pc = "new"
    /\ \E r \in 2..MaxStreamR, data \in ByteStrings(StreamVals, MaxStreamBytes) :
          LET self == Hamming_init(r)
              ret == Hamming_pack(self, data)
          IN /\ hamming' = self
             /\ s_data' = data
             /\ s_ret' = ret
             /\ s_recv' = ret.encoded_data
    /\ m_pc' = "packed"
    /\ UNCHANGED <<unitVars, s_flips, s_out, blockVars, huffVars, arcVars>>

\* the codeword (0-based) that bit number i of the stream belongs to
BlockOf(i) == (i - 1) \div hamming.n

\* one bit of the encoded stream is inverted (at most two, at different
\* positions of the same codeword)
StreamFlip ==
    /\ m_pc = "packed"
    /\ Cardinality(s_flips) < 2
    /\ \E i \in (1..(8 * Len(s_recv))) \ s_flips :
          /\ \A j \in s_flips : BlockOf(j) = BlockOf(i)
          /\ LET bits == bytes_to_bits(s_recv)
             IN s_recv' = bits_to_bytes([bits EXCEPT ![i] = 1 - @])
          /\ s_flips' = s_flips \cup {i}
    /\ UNCHANGED <<unitVars, hamming, s_data, s_ret, s_out, blockVars, m_pc, huffVars, arcVars>>

\* ham.unpack(encoded, padding) with the padding pack returned
StreamUnpack ==
    /\ m_pc = "packed"
    /\ LET u == Hamming_unpack(hamming, s_recv, s_ret.padding)
       IN s_out' = [done |-> TRUE, decoded_data |-> u.decoded_data,
                    corrected |-> u.corrected, uncorrectable |-> u.uncorrectable]
    /\ m_pc' = "unpacked"
    /\ UNCHANGED <<unitVars, hamming, s_data, s_ret, s_recv, s_flips, blockVars, huffVars, arcVars>>

\* ------------------------------------------------------------------------
\* Packing and unpacking archives (main.pack_archive, main.unpack_archive)
\* ------------------------------------------------------------------------

\* the input files a pack run may be given, in bytes
ArcRaws == { << >>, <<65>>, <<65, 66>>, <<65, 65, 66>> }

\* the values of --r of the runs
ArcRs == {3, 4}

\* the number of input files of a pack run
MaxInputs == 3

\* the values of -o: a bare file name, a file in a directory
OutputPaths == { [dir |-> "", name |-> "data.arc"], [dir |-> "out", name |-> "data.arc"] }

\* the masks a tampering XORs onto one byte of the archive
TamperMasks == {1, 255}

\* what argparse hands to prepare_pack_args for the pack command
ParsedArgs ==
    [huffman : BOOLEAN, hamming : BOOLEAN, crc32 : {FALSE}, sha256 : {FALSE},
     index_table : {FALSE}, r : ArcRs, bytes_order : {"little", "big"},
     output : OutputPaths, mode : {0}]

\* cli.prepare_pack_args for the pack command
prepare_pack_args(args) ==
    [args EXCEPT !.mode = build_flags(args),
                 !.bytes_order = bytes_order_to_flag(args.bytes_order)]

\* os.path.basename of the i-th input file: "a", "b", ...
InputName(i) == <<96 + i>>

\* A well-formed archive with one entry, laid out as the module docstring
\* of Archive_Formats.py and the checks of the reader require: header and
\* code table, the record padded to 8, the payload; HeaderCrc32 computed
\* with its own field zeroed. [bytes, data_offset, data_len]
EnvArchive(args, raw) ==
    With(encode_file(raw, args).res, LAMBDA meta :
    With(add_file(ArchiveWriter_init(args), InputName(1), meta).self, LAMBDA w :
    With(align_up(OFF_DATATABLE + FH_FIXED_SIZE + Len(w.entries[1].hdr.name), 8),
         LAMBDA data_section_offset :
    With([w.header EXCEPT
             !.file_count = Num(1),
             !.data_section_offset = Num(data_section_offset),
             !.data_crc32 = crc32(meta.data),
             !.archive_size = Num(data_section_offset + Len(meta.data))],
         LAMBDA h0 :
        [bytes |-> ArchiveHeader_to_bytes(
                       [h0 EXCEPT !.header_crc32 =
                                      ArchiveHeader_compute_header_crc32(h0).crc]).out
                   \o WriteBlocks(
                       <<HeaderFile_to_bytes(
                             [w.entries[1].hdr EXCEPT
                                 !.data_offset = Num(data_section_offset)],
                             endian_prefix(args.bytes_order)).out>>,
                       OFF_DATATABLE)
                   \o meta.data,
         data_offset |-> data_section_offset,
         data_len |-> Len(meta.data)]))))

\* the arguments of the runs that wrote the archives found on disk
EnvArgs ==
    { prepare_pack_args(a) : a \in
        { p \in ParsedArgs : p.huffman = p.hamming /\ p.r = 4 /\ p.output.dir = "" } }

\* the file they packed
EnvRaw == <<65, 65, 66>>

NoArgs ==
    [huffman |-> FALSE, hamming |-> FALSE, crc32 |-> FALSE, sha256 |-> FALSE,
     index_table |-> FALSE, r |-> 4, bytes_order |-> 0,
     output |-> [dir |-> "", name |-> ""], mode |-> 0]

NoMeta ==
    [data |-> << >>, lengths_codes |-> Zeros(256), flags |-> 0, padding_huff |-> 0,
     r |-> 0, padding_hamm |-> 0, raw_size |-> 0, compressed_size |-> 0]

NoEnv == [bytes |-> << >>, data_offset |-> 0, data_len |-> 0]

\* no pack or unpack run
ArchiveIdle ==
    /\ a_args = NoArgs /\ a_raw = << >> /\ a_meta = NoMeta
    /\ writer = ArchiveWriter_init(NoArgs) /\ w_pc = "idle" /\ w_err = ""
    /\ fs = NoFiles /\ fs_before = NoFile /\ env = NoEnv
    /\ tamper = [done |-> FALSE, offset |-> 0, mask |-> 0]
    /\ reader = ArchiveReader_init /\ r_pc = "new"
    /\ r_open = [done |-> FALSE, err |-> "", stage |-> ""]
    /\ r_files = [done |-> FALSE, out |-> << >>, err |-> ""]
    /\ r_verify = [done |-> FALSE, ok |-> FALSE, err |-> ""]

readerVars == <<reader, r_pc, r_open, r_files, r_verify>>

\* pack_archive starts: writer = ArchiveWriter(args); the output path
\* names no file yet, or an archive of an earlier run
PackStart ==
    /\ w_pc = "idle"
    /\ a_args' \in { prepare_pack_args(a) : a \in ParsedArgs }
    /\ writer' = ArchiveWriter_init(a_args') /\ w_pc' = "ready"
    /\ \/ env' = NoEnv /\ fs_before' = NoFile
       \/ env' = EnvArchive(NoArgs, EnvRaw) /\ fs_before' = File(env'.bytes)
    /\ fs' = [dest |-> fs_before', tmp |-> NoFile]
    /\ UNCHANGED <<unitVars, a_raw, a_meta, w_err, tamper, readerVars, huffVars, hammVars>>

\* res = encode_file(f, args) for the next input file
PackEncode ==
    /\ w_pc = "ready"
    /\ Len(writer.entries) < MaxInputs
    /\ \E raw \in ArcRaws : \E e \in {encode_file(raw, a_args)} :
            /\ a_raw' = raw
            /\ IF e.err # ""
               THEN a_meta' = a_meta /\ w_pc' = "encode_failed" /\ w_err' = e.err
               ELSE a_meta' = e.res /\ w_pc' = "encoded" /\ w_err' = ""
    /\ UNCHANGED <<unitVars, a_args, writer, fs, fs_before, env, tamper, readerVars,
                   huffVars, hammVars>>

\* writer.add_file(name, res)
PackAddFile ==
    /\ w_pc = "encoded"
    /\ \E a \in {add_file(writer, InputName(Len(writer.entries) + 1), a_meta)} :
           /\ writer' = a.self
           /\ w_err' = a.err
           /\ w_pc' = IF a.err # "" THEN "add_failed" ELSE "ready"
    /\ UNCHANGED <<unitVars, a_args, a_raw, a_meta, fs, fs_before, env, tamper, readerVars,
                   huffVars, hammVars>>

\* writer.finalize() after the loop over the input files
PackFinalize ==
    /\ w_pc = "ready"
    /\ \E f \in {finalize(writer, fs)} :
           /\ writer' = f.self
           /\ fs' = f.fs
           /\ w_err' = f.err
           /\ w_pc' = IF f.err # "" THEN "finalize_failed" ELSE "finalized"
    /\ UNCHANGED <<unitVars, a_args, a_raw, a_meta, fs_before, env, tamper, readerVars,
                   huffVars, hammVars>>

\* an archive of an earlier run lies at the path the reader is given
ReadStart ==
    /\ w_pc = "idle"
    /\ a_args' \in EnvArgs
    /\ a_raw' = EnvRaw
    /\ w_pc' = "none"
    /\ env' = EnvArchive(a_args', a_raw')
    /\ fs_before' = File(env'.bytes)
    /\ fs' = [dest |-> fs_before', tmp |-> NoFile]
    /\ UNCHANGED <<unitVars, a_meta, writer, w_err, tamper, readerVars, huffVars, hammVars>>

\* one byte of the archive changes on disk before it is read
Tamper ==
    /\ w_pc = "none" /\ r_pc = "new" /\ ~tamper.done
    /\ \E offset \in 0..(Len(fs.dest.bytes) - 1) : \E mask \in TamperMasks :
        /\ tamper' = [done |-> TRUE, offset |-> offset, mask |-> mask]
        /\ fs' = [fs EXCEPT !.dest.bytes[offset + 1] = Xor8[@ + 1][mask + 1]]
    /\ UNCHANGED <<unitVars, a_args, a_raw, a_meta, writer, w_pc, w_err, fs_before, env,
                   readerVars, huffVars, hammVars>>

\* the pack run is over, or there was none
PackOver == w_pc \in {"none", "finalized", "finalize_failed"}

\* reader = ArchiveReader(path); reader.open()
ReaderOpen ==
    /\ PackOver /\ r_pc = "new"
    /\ \E o \in {ArchiveReader_open(reader, fs.dest)} :
           /\ reader' = o.self
           /\ r_open' = [done |-> TRUE, err |-> o.err, stage |-> o.stage]
    /\ r_pc' = "opened"
    /\ UNCHANGED <<unitVars, a_args, a_raw, a_meta, writer, w_pc, w_err, fs, fs_before, env,
                   tamper, r_files, r_verify, huffVars, hammVars>>

\* for header, data in reader.iter_files(): decode_file, write
ReaderFiles ==
    /\ PackOver /\ r_pc \in {"new", "opened"}
    /\ \E u \in {unpack_files(reader, fs.dest)} :
           r_files' = [done |-> TRUE, out |-> u.out, err |-> u.err]
    /\ r_pc' = "iterated"
    /\ UNCHANGED <<unitVars, a_args, a_raw, a_meta, writer, w_pc, w_err, fs, fs_before, env,
                   tamper, reader, r_open, r_verify, huffVars, hammVars>>

\* reader.verify_data_crc()
ReaderVerify ==
    /\ PackOver /\ r_pc \in {"opened", "iterated"}
    /\ \E v \in {verify_data_crc(reader, fs.dest)} :
           r_verify' = [done |-> TRUE, ok |-> v.ok, err |-> v.err]
    /\ r_pc' = "verified"
    /\ UNCHANGED <<unitVars, a_args, a_raw, a_meta, writer, w_pc, w_err, fs, fs_before, env,
                   tamper, reader, r_open, r_files, huffVars, hammVars>>

\* ------------------------------------------------------------------------
\* Specifications
\* ------------------------------------------------------------------------

\* ------------------------------------------------------------------------
\* Records of the data table: HeaderFile, to_bytes, from_bytes
\* ------------------------------------------------------------------------

\* payload sizes of the records: none, one byte, a few bytes
RecordSizes == {0, 1, 3}

\* data offsets of the records: the placeholder 0 that add_file and the
\* first stage of finalize store, the last offset inside the archive
\* header, the first offset after it, a later one
RecordOffsets == {0, META_SIZE - 1, META_SIZE, META_SIZE + 32}

\* file names of the records, UTF-8: "a", "a.b"
RecordNames == {<<97>>, <<97, 46, 98>>}

RecordIdle ==
    /\ rec_hdr = << >> /\ rec_prefix = ""
    /\ rec_ser = [done |-> FALSE, err |-> "", out |-> << >>]
    /\ rec_par = [done |-> FALSE, err |-> ""]
    /\ rec_pc = "new"

\* entry = HeaderFile(name = ..., ..., data_offset = ...)
RecordNew ==
    /\ rec_pc = "new"
    /\ \E name \in RecordNames, flags \in {0, 3}, size \in RecordSizes,
          offset \in RecordOffsets :
          rec_hdr' = HeaderFile(name, Zeros(CODE_TABLE_SIZE), flags, 0, 4, 0,
                                Num(size), Num(size), crc32(Zeros(size)),
                                Num(offset))
    /\ rec_prefix' \in {"<", ">"}
    /\ rec_pc' = "built"
    /\ UNCHANGED <<decVars, convVars, rec_ser, rec_par, extVars,
                   huffVars, hammVars, arcVars>>

\* sizes of records around the largest file size: 0, 1, the limit 2 << 30,
\* the limit plus one, the largest value of the 4-byte fields
RecordLimitSizes ==
    {Num(0), Num(1), MAX_FILE_SIZE, Add(MAX_FILE_SIZE, Num(1)),
     <<255, 255, 255, 255, 0, 0, 0, 0>>}

\* entry = HeaderFile(..., original_size = ..., compressed_size = ..., ...),
\* the two sizes independent of each other
RecordNewSized ==
    /\ rec_pc = "new"
    /\ \E name \in RecordNames, original_size \in RecordLimitSizes,
          compressed_size \in RecordLimitSizes, offset \in RecordOffsets :
          rec_hdr' = HeaderFile(name, Zeros(CODE_TABLE_SIZE), 0, 0, 4, 0,
                                original_size, compressed_size, crc32(<< >>),
                                Num(offset))
    /\ rec_prefix' \in {"<", ">"}
    /\ rec_pc' = "built"
    /\ UNCHANGED <<decVars, convVars, rec_ser, rec_par, extVars,
                   huffVars, hammVars, arcVars>>

\* block = hdr.to_bytes(prefix)
RecordSerialize ==
    /\ rec_pc = "built"
    /\ \E b \in {HeaderFile_to_bytes(rec_hdr, rec_prefix)} :
          rec_ser' = [done |-> TRUE, err |-> b.err, out |-> b.out]
    /\ rec_pc' = "serialized"
    /\ UNCHANGED <<decVars, convVars, rec_hdr, rec_prefix, rec_par, extVars,
                   huffVars, hammVars, arcVars>>

\* the bytes of a record as they stand in a data table: the layout of
\* to_bytes, with the record's own sizes and data_offset in their fields
RecordBytes(hdr, prefix) ==
    pack(prefix, "Q",
         pack(prefix, "I",
              pack(prefix, "I",
                   HeaderFile_to_bytes([hdr EXCEPT !.data_offset = Num(META_SIZE),
                                                   !.original_size = Num(0),
                                                   !.compressed_size = Num(0)],
                                       prefix).out,
                   FH_OFF_ORIGINAL_SIZE, hdr.original_size),
              FH_OFF_COMPRESSED_SIZE, hdr.compressed_size),
         FH_OFF_DATA_OFFSET, hdr.data_offset)

\* HeaderFile.from_bytes(hdr_blob, name_b, prefix) on the bytes of the
\* record
RecordParse ==
    /\ rec_pc = "serialized"
    /\ \E blob \in {RecordBytes(rec_hdr, rec_prefix)} :
       \E p \in {HeaderFile_from_bytes(Take(blob, FH_FIXED_SIZE),
                                       SubSeq(blob, FH_FIXED_SIZE + 1, Len(blob)),
                                       rec_prefix)} :
          rec_par' = [done |-> TRUE, err |-> p.err]
    /\ rec_pc' = "parsed"
    /\ UNCHANGED <<decVars, convVars, rec_hdr, rec_prefix, rec_ser, extVars,
                   huffVars, hammVars, arcVars>>

\* ------------------------------------------------------------------------
\* main.decode_file on the entries of an archive
\* ------------------------------------------------------------------------

\* longest input file of the entries
MaxEntryBytes == 3

\* the byte values of the input files
EntryVals == {65, 66}

\* the original sizes a record can name for a file of n bytes: n itself,
\* as encode_file stores it, or less
EntrySizes(n) == {n} \cup {m \in {n - 1} : m >= 0}

\* the arguments of the runs that encoded the entries
EntryArgs ==
    { prepare_pack_args(a) : a \in
        { p \in ParsedArgs : p.bytes_order = "little" /\ p.output.dir = "" } }

DecodeIdle ==
    /\ d_raw = << >> /\ d_data = << >> /\ d_hdr = << >>
    /\ d_res = [err |-> "", out |-> << >>, calls |-> << >>]
    /\ d_pc = "new"

\* for header, data in reader.iter_files(): an entry that encode_file and
\* add_file produced from a file, with the code table the reader attaches
DecodeYield ==
    /\ d_pc = "new"
    /\ \E raw \in ByteStrings(EntryVals, MaxEntryBytes), args \in EntryArgs :
       \E e \in {encode_file(raw, args)} :
          /\ e.err = ""
          /\ \E size \in EntrySizes(Len(raw)) :
                d_hdr' = [add_file(ArchiveWriter_init(args), InputName(1),
                                   e.res).self.entries[1].hdr
                             EXCEPT !.original_size = Num(size)]
          /\ d_data' = e.res.data
          /\ d_raw' = raw
    /\ d_pc' = "yielded"
    /\ UNCHANGED <<d_res, recVars, convVars, extVars,
                   huffVars, hammVars, arcVars>>

\* raw_data = decode_file(data, header)
DecodeFile ==
    /\ d_pc = "yielded"
    /\ d_res' = decode_file(d_data, d_hdr)
    /\ d_pc' = "done"
    /\ UNCHANGED <<d_raw, d_data, d_hdr, recVars, convVars, extVars,
                   huffVars, hammVars, arcVars>>

\* ------------------------------------------------------------------------
\* utils.py: bytes_to_bits and bits_to_bytes, one after the other
\* ------------------------------------------------------------------------

\* longest byte string converted to bits
MaxConvBytes == 2

\* longest bit list converted to bytes
MaxConvBits == 8

\* the byte values converted: no bit set, the lowest, the highest, the
\* pattern 0b10101100 of the unit test, all bits set
ConvVals == {0, 1, 128, 172, 255}

\* all bit lists of length 0..n
BitLists(n) == UNION {[1..m -> {0, 1}] : m \in 0..n}

ConvIdle ==
    /\ c_kind = "" /\ c_in = << >> /\ c_mid = << >> /\ c_out = << >>
    /\ c_pc = "new"

\* bits = bytes_to_bits(b)
ConvBytesToBits ==
    /\ c_pc = "new"
    /\ \E b \in ByteStrings(ConvVals, MaxConvBytes) :
          /\ c_in' = b
          /\ c_mid' = bytes_to_bits(b)
    /\ c_kind' = "bytes"
    /\ c_pc' = "half"
    /\ UNCHANGED <<c_out, recVars, decVars, extVars,
                   huffVars, hammVars, arcVars>>

\* out = bits_to_bytes(bits)
ConvBitsToBytes ==
    /\ c_pc = "new"
    /\ \E bits \in BitLists(MaxConvBits) :
          /\ c_in' = bits
          /\ c_mid' = bits_to_bytes(bits)
    /\ c_kind' = "bits"
    /\ c_pc' = "half"
    /\ UNCHANGED <<c_out, recVars, decVars, extVars,
                   huffVars, hammVars, arcVars>>

\* the opposite conversion on what the first returned
ConvBack ==
    /\ c_pc = "half"
    /\ c_out' = IF c_kind = "bytes" THEN bits_to_bytes(c_mid)
                ELSE bytes_to_bits(c_mid)
    /\ c_pc' = "done"
    /\ UNCHANGED <<c_kind, c_in, c_mid, recVars, decVars, extVars,
                   huffVars, hammVars, arcVars>>

\* ------------------------------------------------------------------------
\* Archive header: ArchiveHeader, to_bytes, from_bytes
\* ------------------------------------------------------------------------

\* the flag bits of a header: Huffman, Hamming, crc32, SHA256, index table
FlagBits == 5

\* the code tables of the headers: none, the lengths of a two-symbol code
HeaderTables == {Zeros(CODE_TABLE_SIZE), lengths_to_bytes([s \in {65, 66} |-> 1])}

\* the sizes of the archives the headers describe: no record and no data,
\* one record with one byte of data
HeaderShapes ==
    {[file_count |-> 0, data_section_offset |-> META_SIZE, archive_size |-> META_SIZE],
     [file_count |-> 1, data_section_offset |-> META_SIZE + 32,
      archive_size |-> META_SIZE + 33]}

HeaderIdle ==
    /\ hd_in = << >>
    /\ hd_ser = [done |-> FALSE, err |-> "", out |-> << >>]
    /\ hd_par = [done |-> FALSE, err |-> "", H |-> << >>]
    /\ hd_pc = "new"

\* header = ArchiveHeader(bytes_order = ..., flags = ...), the fields that
\* finalize fills set to values that pass validate_header
HeaderNew ==
    /\ hd_pc = "new"
    /\ \E bytes_order \in {0, 1}, flags \in 0..(Pow2(FlagBits) - 1),
          shape \in HeaderShapes, table \in HeaderTables :
          hd_in' = [ArchiveHeader(bytes_order, Num(flags)) EXCEPT
                       !.file_count = Num(shape.file_count),
                       !.data_section_offset = Num(shape.data_section_offset),
                       !.archive_size = Num(shape.archive_size),
                       !.data_crc32 = crc32(<<65>>),
                       !.header_crc32 = crc32(<<66>>),
                       !.code_table = table]
    /\ hd_pc' = "built"
    /\ UNCHANGED <<hd_ser, hd_par, reuseVars, recVars, decVars, convVars,
                   huffVars, hammVars, arcVars>>

\* blob = header.to_bytes()
HeaderSerialize ==
    /\ hd_pc = "built"
    /\ \E b \in {ArchiveHeader_to_bytes(hd_in)} :
          hd_ser' = [done |-> TRUE, err |-> b.err, out |-> b.out]
    /\ hd_pc' = "serialized"
    /\ UNCHANGED <<hd_in, hd_par, reuseVars, recVars, decVars, convVars,
                   huffVars, hammVars, arcVars>>

\* ArchiveHeader.from_bytes(blob)
HeaderParse ==
    /\ hd_pc = "serialized" /\ hd_ser.err = ""
    /\ \E p \in {ArchiveHeader_from_bytes(hd_ser.out)} :
          hd_par' = [done |-> TRUE, err |-> p.err, H |-> p.H]
    /\ hd_pc' = "parsed"
    /\ UNCHANGED <<hd_in, hd_ser, reuseVars, recVars, decVars, convVars,
                   huffVars, hammVars, arcVars>>

\* ------------------------------------------------------------------------
\* Huffman codec: several calls on one instance
\* ------------------------------------------------------------------------

\* the number of calls made on one instance
MaxCalls == 2

\* longest input of these calls
MaxReuseLen == 2

ReuseIdle == h_prev = << >> /\ h_fresh = [err |-> "unset"]

\* h.pack(data) on the instance as the earlier calls left it
ReusePack ==
    /\ Len(h_prev) < MaxCalls
    /\ \E data \in ByteStrings(ByteVals, MaxReuseLen) :
       \E r \in {Huffman_pack(huffman, data)} :
          /\ huffman' = r.self
          /\ h_data' = data
          /\ h_ret' = r.ret
          /\ h_pc' = IF r.ret.err = "" THEN "packed" ELSE "pack_failed"
          /\ h_fresh' = Huffman_pack(Huffman_init, data).ret
          /\ h_prev' = Append(h_prev, [call |-> "pack", data |-> data])
    /\ UNCHANGED <<h_out, hdrVars, recVars, decVars, convVars, hammVars, arcVars>>

\* h.unpack(packed, lengths_codes, padding) on the instance as the earlier
\* calls left it, the arguments being what Huffman().pack(data) returned
ReuseUnpack ==
    /\ Len(h_prev) < MaxCalls
    /\ \E data \in ByteStrings(ByteVals, MaxReuseLen) :
       \E p \in {Huffman_pack(Huffman_init, data).ret} :
          /\ p.err = ""
          /\ \E r \in {Huffman_unpack(huffman, p.packed, p.lengths_codes, p.padding)} :
                /\ huffman' = r.self
                /\ h_out' = r.ret
          /\ h_data' = data
          /\ h_ret' = p
          /\ h_fresh' = [err |-> "",
                         out |-> Huffman_unpack(Huffman_init, p.packed,
                                                p.lengths_codes, p.padding).ret]
          /\ h_prev' = Append(h_prev, [call |-> "unpack", data |-> data])
    /\ h_pc' = "unpacked"
    /\ UNCHANGED <<hdrVars, recVars, decVars, convVars, hammVars, arcVars>>

Init ==
    /\ HuffmanIdle /\ HammingIdle /\ ArchiveIdle /\ RecordIdle /\ DecodeIdle
    /\ ConvIdle /\ HeaderIdle /\ ReuseIdle

\* the Huffman codec
NextHuffman == HuffmanPack \/ HuffmanUnpack
SpecHuffman == Init /\ [][NextHuffman]_vars

\* one Hamming block
NextBlock == BlockEncode \/ BlockFlip \/ BlockDecode
SpecBlock == Init /\ [][NextBlock]_vars

\* Hamming over byte streams
NextStream == StreamPack \/ StreamFlip \/ StreamUnpack
SpecStream == Init /\ [][NextStream]_vars

\* packing files into an archive, then reading the archive path
NextArchive ==
    \/ PackStart \/ PackEncode \/ PackAddFile \/ PackFinalize
    \/ ReaderOpen \/ ReaderFiles \/ ReaderVerify
SpecArchive == Init /\ [][NextArchive]_vars

\* reading an archive found on disk, possibly tampered with
NextReader == ReadStart \/ Tamper \/ ReaderOpen \/ ReaderFiles \/ ReaderVerify
SpecReader == Init /\ [][NextReader]_vars

NextRecord == RecordNew \/ RecordSerialize \/ RecordParse
SpecRecord == Init /\ [][NextRecord]_vars

NextSizes == RecordNewSized \/ RecordSerialize \/ RecordParse
SpecSizes == Init /\ [][NextSizes]_vars

NextDecode == DecodeYield \/ DecodeFile
SpecDecode == Init /\ [][NextDecode]_vars

NextConv == ConvBytesToBits \/ ConvBitsToBytes \/ ConvBack
SpecConv == Init /\ [][NextConv]_vars

NextHeader == HeaderNew \/ HeaderSerialize \/ HeaderParse
SpecHeader == Init /\ [][NextHeader]_vars

NextReuse == ReusePack \/ ReuseUnpack
SpecReuse == Init /\ [][NextReuse]_vars

\* ------------------------------------------------------------------------
\* Claims
\* ------------------------------------------------------------------------

\* the byte values that occur in a byte string
Values(data) == {data[i] : i \in 1..Len(data)}

\* C1: Huffman round trip.  pack(d) on a fresh instance completes for
\* every byte string d (length 0, length 1, longer), and unpack with the
\* values pack returned gives back exactly d.
C1_HuffmanRoundTrip ==
    /\ h_pc # "pack_failed"
    /\ h_pc = "unpacked" => h_out = h_data

\* C2: Hamming round trip.  For every r and every byte string b (also
\* when its bit length is no multiple of k), unpack(pack(b), padding) with
\* the padding pack returned gives back exactly b when the encoded bytes
\* are not modified.
C2_HammingRoundTrip ==
    (m_pc = "unpacked" /\ s_flips = {}) => s_out.decoded_data = s_data

\* C2 witness: an unmodified stream that needed padding bits was unpacked
C2_Witness ==
    /\ m_pc = "unpacked" /\ s_flips = {}
    /\ s_data # << >> /\ s_ret.padding > 0
    /\ s_out.decoded_data = s_data

\* C3: single-bit correction.  Flipping exactly one bit of a codeword
\* makes the block decoder report corrected = true, uncorrectable = false
\* and return the original data bits.
C3_SingleBitCorrected ==
    (m_pc = "decoded" /\ Cardinality(b_flips) = 1) =>
        /\ b_dec.corrected
        /\ ~b_dec.uncorrectable
        /\ b_dec.data = b_data

\* a file that holds the whole archive of the writer: its header and code
\* table first, as many bytes as the header's archive_size says
CompleteArchive(file, w) ==
    /\ file.exists
    /\ Num(Len(file.bytes)) = w.header.archive_size
    /\ Len(file.bytes) >= META_SIZE
    /\ Take(file.bytes, META_SIZE) = ArchiveHeader_to_bytes(w.header).out

\* C4: once one file has been encoded with Huffman and Hamming both
\* enabled and added to the writer (encode_file, add_file), finalize
\* succeeds, and reading the archive back (open, iter_files, decode_file)
\* succeeds at every step, writes out the original bytes, and
\* verify_data_crc returns True.
C4_ArchiveRoundTrip ==
    (a_args.huffman /\ a_args.hamming /\ Len(writer.entries) = 1) =>
            /\ w_pc # "finalize_failed"
            /\ r_open.err = ""
            /\ r_files.err = ""
            /\ r_files.done =>
                 r_files.out = <<[name |-> InputName(1), raw_data |-> a_raw]>>
            /\ r_verify.done => r_verify.ok /\ r_verify.err = ""

C6_HeaderTamperDetected ==
    (tamper.done /\ tamper.offset < META_SIZE /\ r_open.done) =>
        /\ r_open.err # ""
        /\ r_open.stage \in {"from_bytes", "validate_crc32"}

\* C7: after one byte inside the payload of the entry has been changed,
\* the pass over iter_files ends with the integrity error (ValueError, CRC
\* mismatch) and no file has been yielded and written.
C7_EntryTamperFailFast ==
    (/\ tamper.done
     /\ tamper.offset >= env.data_offset
     /\ tamper.offset < env.data_offset + env.data_len
     /\ r_files.done) =>
        /\ r_files.err = "ValueError"
        /\ r_files.out = << >>

\* code i is a prefix of code j (both entries of canonical_codes)
IsPrefix(ci, cj) ==
    /\ ci.len <= cj.len
    /\ cj.code \div Pow2(cj.len - ci.len) = ci.code

\* C8: the canonical codes generated from the length table of an input
\* with at least two distinct byte values are prefix-free, and within one
\* code length they increase strictly with the symbol value.
C8_CanonicalPrefixFree ==
    (h_pc \in {"packed", "unpacked"} /\ Cardinality(Values(h_data)) >= 2) =>
        LET codes == huffman.canonical_codes
        IN /\ Values(h_data) = {codes[i].sym : i \in 1..Len(codes)}
           /\ \A i, j \in 1..Len(codes) :
                 i # j => /\ ~IsPrefix(codes[i], codes[j])
                          /\ (codes[i].len = codes[j].len /\ codes[i].sym < codes[j].sym)
                                => codes[i].code < codes[j].code

\* C8 witness: codes of two different lengths, and two codes of one length
C8_Witness ==
    /\ h_pc = "packed"
    /\ LET codes == huffman.canonical_codes
       IN /\ \E i, j \in 1..Len(codes) : codes[i].len < codes[j].len
          /\ \E i, j \in 1..Len(codes) : i # j /\ codes[i].len = codes[j].len

\* C9: decoding an unmodified codeword returns the data bits with
\* corrected = false and uncorrectable = false.
C9_CleanDecodeNoError ==
    (m_pc = "decoded" /\ b_flips = {}) =>
        /\ b_dec.data = b_data
        /\ ~b_dec.corrected
        /\ ~b_dec.uncorrectable

StreamBlocks == (8 * Len(s_data) + s_ret.padding) \div hamming.k

\* C11: double-error detection.  When two bits inside the one codeword of
\* a single-block stream are flipped, unpack counts that block as
\* uncorrectable (uncorrectable = 1) and not as a corrected single error
\* (corrected = 0).
C11_DoubleErrorDetected ==
    (/\ m_pc = "unpacked" /\ StreamBlocks = 1
     /\ Cardinality(s_flips) = 2 /\ s_flips \subseteq 1..hamming.n) =>
        /\ s_out.uncorrectable = 1
        /\ s_out.corrected = 0

\* C12: Hamming parameters.  Once a Hamming instance exists for r, its block
\* length is n = 2^r - 1 and its payload length is k = n - r, and the block
\* encoder has mapped the k data bits to exactly n bits.
C12_HammingParameters ==
    (m_pc # "new") =>
        /\ hamming.n = Pow2(hamming.r) - 1
        /\ hamming.k = hamming.n - hamming.r
        /\ Len(b_data) = hamming.k
        /\ Len(b_code) = hamming.n

\* C13: single-entry guard.  The writer never holds more than one entry: once
\* it holds one, the next add_file fails with the capacity error and leaves
\* the entry list and the header code table as they were.
C13_SingleEntryGuard ==
    /\ Len(writer.entries) <= 1
    /\ [][(PackAddFile /\ Len(writer.entries) >= 1) =>
             /\ w_err' = "NotImplementedError"
             /\ writer'.entries = writer.entries
             /\ writer'.header.code_table = writer.header.code_table]_vars

\* C14: signature check on open.  When a byte of the 16-byte signature of a
\* well-formed archive has been changed (every other header field and the
\* stored header checksum left as written), open() fails with a format
\* error raised by the header parser.
C14_SignatureChecked ==
    (tamper.done /\ tamper.offset < H_SIGNATURE_SIZE /\ r_open.done) =>
        /\ r_open.err \in {"ValueError", "ImportError"}
        /\ r_open.stage = "from_bytes"

\* the number of code bits pack produced for h_data
TotalCodeBits == Len(EncodeBits(huffman.canonical_codes, h_data))

\* C15: Huffman padding count.  The padding pack returns is the number of
\* unused bit slots of the last output byte, (8 - (total code bits mod 8))
\* mod 8: a value in 0..7, and 0 when the bit length is a multiple of 8
\* (the empty input included).
C15_PaddingCount ==
    (h_pc \in {"packed", "unpacked"}) =>
        /\ h_ret.padding = (8 - (TotalCodeBits % 8)) % 8
        /\ h_ret.padding \in 0..7
        /\ 8 * Len(h_ret.packed) = TotalCodeBits + h_ret.padding

\* C16: single distinct symbol.  For an input made of one byte value
\* repeated one or more times, pack completes without error and the length
\* table it returns gives that symbol a non-zero code length.
C16_SingleSymbolUsable ==
    (h_pc # "new" /\ Cardinality(Values(h_data)) = 1) =>
        /\ h_ret.err = ""
        /\ h_ret.lengths_codes[h_data[1] + 1] > 0

\* the record's data_offset lies before the end of the archive header
OffsetInHeader == Less(rec_hdr.data_offset, Num(META_SIZE))

\* C17: record offset validation.  to_bytes and from_bytes accept a record
\* with compressed_size = 0 and data_offset = 0; they reject a data_offset
\* below 352 only when compressed_size is not 0; a record with an offset of
\* 352 or more is accepted.
C17_RecordOffsetValidation ==
    /\ rec_ser.done =>
          /\ (rec_hdr.compressed_size = Num(0) /\ rec_hdr.data_offset = Num(0))
                => rec_ser.err = ""
          /\ rec_ser.err # "" <=> (OffsetInHeader /\ rec_hdr.compressed_size # Num(0))
    /\ rec_par.done =>
          /\ (rec_hdr.compressed_size = Num(0) /\ rec_hdr.data_offset = Num(0))
                => rec_par.err = ""
          /\ rec_par.err # "" <=> (OffsetInHeader /\ rec_hdr.compressed_size # Num(0))

\* the number of occurrences of byte b in the input of pack
Freq(b) == Cardinality({i \in 1..Len(h_data) : h_data[i] = b})

\* C18: code length follows frequency.  For an input with at least two
\* distinct byte values, a symbol that occurs strictly more often than
\* another never has the longer code length; for b'AAAABBBCC' the length of
\* 'A' is strictly smaller than the length of 'C'.
C18_LengthFollowsFrequency ==
    (h_pc \in {"packed", "unpacked"} /\ Cardinality(Values(h_data)) >= 2) =>
        /\ \A a, b \in Values(h_data) :
              Freq(a) > Freq(b) => huffman.lengths[a] <= huffman.lengths[b]
        /\ h_data = SampleText => huffman.lengths[65] < huffman.lengths[67]

\* C18 witness: pack of b'AAAABBBCC' has given 'A' a shorter code than 'C'
C18_Witness ==
    /\ h_pc = "packed" /\ h_data = SampleText
    /\ Freq(65) > Freq(67)
    /\ huffman.lengths[65] < huffman.lengths[67]

\* what Hamming.unpack returns for the stored data of the entry
EntryHammingOut ==
    Hamming_unpack(Hamming_init(d_hdr.control_bits), d_data,
                   d_hdr.padding_Hamm).decoded_data

\* what Huffman.unpack returns for data, with the entry's table and padding
EntryHuffmanOut(data) ==
    Huffman_unpack(Huffman_init, data, d_hdr.lengths_codes, d_hdr.padding_Huff).ret

\* the first original_size bytes of data
Truncated(data) == Take(data, Small(d_hdr.original_size))

\* C19: decode order.  decode_file picks the inverse transforms from the
\* flags of the entry and applies them in fixed order: Hamming.unpack on the
\* stored data when bit 1 is set, then Huffman.unpack on the output of the
\* previous stage when bit 0 is set, no call when neither is set; the result
\* is the output of the last stage truncated to original_size.
C19_DecodeOrder ==
    (d_pc = "done") =>
        /\ d_res.err = ""
        /\ d_hdr.flags = 0 =>
              /\ d_res.calls = << >>
              /\ d_res.out = Truncated(d_data)
        /\ d_hdr.flags = 1 =>
              /\ d_res.calls = <<[fn |-> "Huffman.unpack", arg |-> d_data]>>
              /\ d_res.out = Truncated(EntryHuffmanOut(d_data))
        /\ d_hdr.flags = 2 =>
              /\ d_res.calls = <<[fn |-> "Hamming.unpack", arg |-> d_data]>>
              /\ d_res.out = Truncated(EntryHammingOut)
        /\ d_hdr.flags = 3 =>
              /\ d_res.calls = <<[fn |-> "Hamming.unpack", arg |-> d_data],
                                 [fn |-> "Huffman.unpack", arg |-> EntryHammingOut]>>
              /\ d_res.out = Truncated(EntryHuffmanOut(EntryHammingOut))
        /\ Len(d_res.out) <= Small(d_hdr.original_size)

\* C19 witness: an entry with both flags has been decoded, the two stages
\* got different data, and the truncation has cut the output of the last
C19_Witness ==
    /\ d_pc = "done" /\ d_hdr.flags = 3
    /\ Len(d_res.calls) = 2
    /\ d_res.calls[1].arg # d_res.calls[2].arg
    /\ Len(d_res.out) < Len(EntryHuffmanOut(EntryHammingOut))

\* C20: bit/byte conversion round trip.  bits_to_bytes(bytes_to_bits(b)) is
\* b for every byte string b; bytes_to_bits gives 8 bits per byte, the most
\* significant first; bytes_to_bits(bits_to_bytes(bits)) is bits for every
\* bit list whose length is a multiple of 8.
C20_BitByteRoundTrip ==
    /\ (c_kind = "bytes" /\ c_pc \in {"half", "done"}) =>
          /\ Len(c_mid) = 8 * Len(c_in)
          /\ \A i \in 1..Len(c_in) : \A j \in 0..7 :
                c_mid[8 * (i - 1) + j + 1] = (c_in[i] \div Pow2(7 - j)) % 2
    /\ (c_kind = "bytes" /\ c_pc = "done") => c_out = c_in
    /\ (c_kind = "bits" /\ c_pc = "done" /\ Len(c_in) % 8 = 0) => c_out = c_in

\* C20 witness: the byte 0b10101100 has gone to bits and back
C20_Witness ==
    /\ c_pc = "done" /\ c_kind = "bytes"
    /\ c_in = <<172>>
    /\ c_mid = <<1, 0, 1, 0, 1, 1, 0, 0>>
    /\ c_out = <<172>>

\* C21: header serialize/parse round trip.  For every header that passes
\* validation, in either byte order and with any combination of the flag
\* bits 0..4, to_bytes succeeds, from_bytes on its bytes succeeds and gives
\* back the same version, flags, sizes, checksums, byte order, file count,
\* section offsets and code table.
C21_HeaderRoundTrip ==
    /\ hd_ser.done => hd_ser.err = ""
    /\ hd_par.done =>
          /\ hd_par.err = ""
          /\ \A f \in {"version", "flags", "archive_size", "data_crc32",
                       "header_crc32", "bytes_order", "file_count",
                       "data_section_offset", "index_section_offset",
                       "code_table"} : hd_par.H[f] = hd_in[f]

\* the symbols that have a canonical code in the instance
CodedSymbols == {huffman.canonical_codes[i].sym : i \in 1..Len(huffman.canonical_codes)}

\* C22: Huffman state is rebuilt per call.  After any sequence of pack and
\* unpack calls on one instance, the last call has returned what the same
\* call returns on a new instance, and the lengths and canonical codes of
\* the instance name no symbol that is absent from the last call's input.
C22_StateRebuiltPerCall ==
    (h_prev # << >>) =>
        /\ h_prev[Len(h_prev)].call = "pack" => h_ret = h_fresh
        /\ h_prev[Len(h_prev)].call = "unpack" => h_out = h_fresh.out
        /\ h_pc # "pack_failed" =>
              /\ CodedSymbols \subseteq Values(h_data)
              /\ {s \in DOMAIN huffman.lengths : huffman.lengths[s] > 0}
                    \subseteq Values(h_data)

\* C23: encode_file output fits the record bounds.  The metadata that
\* encode_file returns has padding_huff <= 7, padding_hamm <= 7 and
\* r <= 10, and so has every record add_file builds from it: validation
\* does not refuse the record on these bounds.
C23_EncodeFitsRecordBounds ==
    /\ w_pc = "encoded" =>
          /\ a_meta.padding_huff <= MAX_PADDING
          /\ a_meta.padding_hamm <= MAX_PADDING
          /\ a_meta.r <= MAX_CONTROL_BITS
    /\ \A i \in 1..Len(writer.entries) :
          /\ writer.entries[i].hdr.padding_Huff <= MAX_PADDING
          /\ writer.entries[i].hdr.padding_Hamm <= MAX_PADDING
          /\ writer.entries[i].hdr.control_bits <= MAX_CONTROL_BITS

\* finalize has been called on a writer that holds one accepted entry and
\* whose output path lies in a directory
FinalizeCalled ==
    /\ w_pc \in {"finalized", "finalize_failed"}
    /\ Len(writer.entries) = 1
    /\ Dirname(writer.path) # ""

\* the header checksum stored in the 352 bytes meta, read in its byte order
StoredHeaderCrc(meta) ==
    unpack(endian_prefix(meta[H_OFF_BYTESORDER + 1]), "I", meta, H_OFF_HEADERCRC32)

RECURSIVE PayloadBefore(_, _)
PayloadBefore(entries, i) ==
    IF i <= 1 THEN 0
    ELSE PayloadBefore(entries, i - 1)
         + (IF entries[i - 1].hdr.compressed_size = Num(0) THEN 0
            ELSE Len(entries[i - 1].data))

\* finalize has been called on a writer that holds accepted entries and
\* whose output path lies in a directory
LayoutRequested ==
    /\ w_pc \in {"finalized", "finalize_failed"}
    /\ Len(writer.entries) >= 1
    /\ Dirname(writer.path) # ""

\* C27: payload placement.  finalize computes the layout: an entry with a
\* payload gets data_offset = data_section_offset + the lengths of the
\* payloads before it, an entry with compressed_size 0 gets data_offset 0,
\* and the payload ranges are pairwise disjoint and lie inside
\* [data_section_offset, archive_size).
C27_PayloadPlacement ==
    LayoutRequested =>
        /\ w_pc = "finalized"
        /\ \A i \in 1..Len(writer.entries) :
              LET hdr == writer.entries[i].hdr
              IN  IF hdr.compressed_size = Num(0) THEN hdr.data_offset = Num(0)
                  ELSE /\ hdr.data_offset
                            = Add(writer.header.data_section_offset,
                                  Num(PayloadBefore(writer.entries, i)))
                       /\ ~Less(writer.header.archive_size,
                                Add(hdr.data_offset, hdr.compressed_size))
        /\ \A i, j \in 1..Len(writer.entries) :
              (/\ i < j
               /\ writer.entries[i].hdr.compressed_size # Num(0)
               /\ writer.entries[j].hdr.compressed_size # Num(0)) =>
                  ~Less(writer.entries[j].hdr.data_offset,
                        Add(writer.entries[i].hdr.data_offset,
                            writer.entries[i].hdr.compressed_size))

\* the space the records of the entries take in the data table, each
\* record (30 bytes and the name) rounded up to a multiple of 8
RECURSIVE TableSpace(_)
TableSpace(entries) ==
    IF entries = << >> THEN 0
    ELSE align_up(FH_FIXED_SIZE + Len(Head(entries).hdr.name), 8)
         + TableSpace(Tail(entries))

\* C28: section sizes.  The header written by finalize has
\* data_section_offset = 352 + the space of the records in the data table
\* and archive_size = data_section_offset + the total payload length, which
\* is the length of the file written.
C28_SectionSizes ==
    LayoutRequested =>
        /\ w_pc = "finalized"
        /\ writer.header.data_section_offset
              = Num(META_SIZE + TableSpace(writer.entries))
        /\ writer.header.archive_size
              = Add(writer.header.data_section_offset,
                    Num(PayloadBefore(writer.entries, Len(writer.entries) + 1)))
        /\ fs.dest.exists
        /\ Num(Len(fs.dest.bytes)) = writer.header.archive_size
        /\ ParsedHeader(Take(fs.dest.bytes, META_SIZE)).archive_size
              = writer.header.archive_size

\* one of the two sizes of the record exceeds the largest file size
Oversized ==
    \/ Less(MAX_FILE_SIZE, rec_hdr.original_size)
    \/ Less(MAX_FILE_SIZE, rec_hdr.compressed_size)

\* C29: size bound on records.  The record validation of to_bytes and of
\* from_bytes rejects every record whose original_size exceeds
\* MAX_FILE_SIZE and every record whose compressed_size exceeds it,
\* whatever the value of the other size.
C29_RecordSizeBound ==
    /\ (rec_ser.done /\ Oversized) => rec_ser.err # ""
    /\ (rec_par.done /\ Oversized) => rec_par.err # ""

\* C30: empty data section.  When every entry has compressed_size 0 (an
\* empty file packed without transforms), finalize writes the archive with
\* data_crc32 = CRC32 of zero bytes, open() accepts the archive and
\* verify_data_crc returns true.
C30_EmptyDataSection ==
    (/\ LayoutRequested
     /\ \A i \in 1..Len(writer.entries) :
           writer.entries[i].hdr.compressed_size = Num(0)) =>
        /\ w_pc = "finalized"
        /\ writer.header.data_crc32 = crc32(<< >>)
        /\ fs.dest.exists
        /\ r_open.done => r_open.err = ""
        /\ r_verify.done => (r_verify.err = "" /\ r_verify.ok)

=============================================================================
